---- MODULE Spec2Model ----
(***************************************************************************)
(* Verification model of janovak/stream-scout.                             *)
(*                                                                         *)
(*   services/flink-job/clip_detector_job.py                               *)
(*       CommandFilter, AnomalyDetector, TwitchAPIClient, ClipCreator      *)
(*   services/stream-monitoring/stream_monitoring_service.py               *)
(*       StreamMonitoringService (poll tick, chat membership)              *)
(*   services/stream-monitoring/token_manager.py                           *)
(*       TokenManager                                                      *)
(*   services/api-frontend/api_frontend_service.py                         *)
(*       get_db, close_db                                                  *)
(*                                                                         *)
(* The specifications share the variables of this module:                 *)
(*   SpecDetector : Kafka record -> CommandFilter -> AnomalyDetector,      *)
(*                  started from warmed-up and cold histories              *)
(*   SpecFilter   : the same pipeline from a cold start, varied chat text  *)
(*   SpecSpike    : the same pipeline fed with the spike scenario          *)
(*   SpecMonitor  : poll_top_streams / _manage_chat_connections            *)
(*   SpecHysteresis : the same in the hysteresis scenario                  *)
(*   SpecConverge : the same with every call of every tick succeeding      *)
(*   SpecChat     : _on_chat_message beside those polls                    *)
(*   SpecService  : the monitor process from start to exit                 *)
(*   SpecJob      : one subtask of the chain detector -> ClipCreator       *)
(*   SpecWriters  : the processes that write the credential file           *)
(*   SpecStream   : a CommandFilter instance fed with a stream             *)
(*   SpecEvict    : the detector in steady traffic, a key losing its state *)
(*   SpecRooms    : chat callbacks between the awaits of the poll ticks    *)
(*   SpecPools    : the connection pools of the monitor and the read API   *)
(*   SpecClip     : ClipCreator.process_element with TwitchAPIClient       *)
(*   SpecClipLive : the same, every call of process_element returning      *)
(*   SpecStore    : TokenManager.load_tokens / save_tokens, with restarts  *)
(* In each of them the variables of the other components keep their        *)
(* initial values.                                                         *)
(***************************************************************************)
EXTENDS Integers, Sequences, FiniteSets, TLC

\* Python's None for an optional value: <<>> is None, <<v>> is the value v
None == <<>>

Min(a, b) == IF a < b THEN a ELSE b

Max(a, b) == IF a > b THEN a ELSE b

Range(f) == {f[x] : x \in DOMAIN f}

(***************************************************************************)
(* Detector: constants of clip_detector_job.py                             *)
(***************************************************************************)
WINDOW_SIZE_SECONDS == 5

BASELINE_WINDOW_SECONDS == 300

STD_DEV_THRESHOLD == 1

COOLDOWN_SECONDS == 30

\* int(BASELINE_WINDOW_SECONDS * 0.8)
min_required == (BASELINE_WINDOW_SECONDS * 8) \div 10

(***************************************************************************)
(* Bounds of the detector model                                            *)
(***************************************************************************)
\* wall-clock second of the detector when the model starts
T0 == 1000

\* number of clock advances explored
MaxTicks == 1

\* number of Kafka records consumed (consumer offset explored)
MaxRecords == 3

\* values in each of the two parts of a filtered stream
MaxLen == 2

\* the keys (broadcaster_id) of the keyed stream
Channels == {111, 222}

\* seconds by which time.time() is seen to advance between two records
TickSteps == {1, COOLDOWN_SECONDS, COOLDOWN_SECONDS + 1}

\* the alphanumeric characters of chat text; "!" and "?" are the others
Alnum == {"a", "7"}

\* chat texts (sequences of characters) offered to the command filter
Texts == {<<>>, <<"!">>, <<"a">>, <<"!", "a">>, <<"!", "?">>, <<"a", "!">>,
          <<"!", "7", "?">>, <<"!", "?", "a">>}

\* chat texts of the records offered to the detector: a bot command and a
\* chat line
DetTexts == {<<"!", "a">>, <<"a">>}

(***************************************************************************)
(* Fleet monitor: constants of stream_monitoring_service.py                *)
(***************************************************************************)
JOIN_THRESHOLD == 5

LEAVE_THRESHOLD == 10

REDIS_STREAMER_TTL == 180

POLL_INTERVAL_SECONDS == 120

(***************************************************************************)
(* Bounds of the monitor model                                             *)
(***************************************************************************)
\* scheduler ticks explored
MaxPolls == 3

\* join_room / leave_room calls that raise, over the whole run
MaxRoomFailures == 1

\* channels that keep their relative order in every listing
Fillers == <<"f1", "f2", "f3", "f4", "f5", "f6", "f7", "f8", "f9", "f10">>

\* the channel whose rank changes from poll to poll
Mover == "x"

Logins == Range(Fillers) \cup {Mover}

\* ranks at which the mover is inserted in a listing
MoverRanks == {3, JOIN_THRESHOLD, JOIN_THRESHOLD + 1, LEAVE_THRESHOLD,
               LEAVE_THRESHOLD + 1}

VARIABLES
    \* ---- detector pipeline (Flink job) ----
    now,                \* int(time.time()) as seen by the detector
    nticks,             \* clock advances so far
    offset,             \* Kafka records consumed so far
    cf_in,              \* <<record>> last given to CommandFilter.process_element
    cf_out,             \* what it yielded for that record (<<>> or <<record>>)
    message_counts,     \* MapState per key: bucket -> count
    last_anomaly_time,  \* ValueState per key: <<ms>> or None
    anomalies           \* output stream of AnomalyDetector (sequence of events)

VARIABLES
    \* ---- fleet monitor (StreamMonitoringService) ----
    mpc,                \* where poll_top_streams is suspended, or "idle"
    polls,              \* scheduler ticks fired so far
    room_failures,      \* join_room / leave_room calls that raised so far
    joined_channels,    \* self.joined_channels
    broadcaster_ids,    \* self.broadcaster_ids (login -> id), as a function
    chat,               \* self.chat: None or <<"Chat">>
    redis_ttl,          \* seconds each key streamer:online:<login> has left
    lifecycle,          \* events produced to topic stream-lifecycle
    poll_errors,        \* twitch_api_errors_total{error_type="poll_streams"}
    streams,            \* local of the running (or last) tick: the listing
    top_join_streamers, \* local of the running (or last) tick
    top_leave_streamers,\* local of the running (or last) tick
    channels_to_join,   \* joins the running tick still has to make
    channels_to_leave,  \* leaves the running tick still has to make
    listed,             \* did get_streams of the running (or last) tick succeed
    joined_prev,        \* joined_channels when the running (or last) tick began
    room_calls          \* join_room / leave_room calls of the running (or last) tick

detVars == <<now, nticks, offset, cf_in, cf_out, message_counts,
             last_anomaly_time, anomalies>>

monVars == <<mpc, polls, room_failures, joined_channels, broadcaster_ids, chat,
             redis_ttl, lifecycle, poll_errors, streams, top_join_streamers,
             top_leave_streamers, channels_to_join, channels_to_leave, listed,
             joined_prev, room_calls>>

\* clip creator
VARIABLES
    cpc,            \* where ClipCreator.process_element stands
    handled,        \* anomalies handed to process_element so far
    anomaly,        \* the anomaly being processed (None before the first)
    attempt,        \* enumerate(RETRY_DELAYS) index + 1 of the running attempt
    clip_id,        \* local clip_id
    last_error,     \* local last_error
    clip_data,      \* local clip_data
    io,             \* sleeps and requests made for this anomaly, in order
    ended,          \* how process_element ended for this anomaly
    access_token,   \* TwitchAPIClient.access_token
    refresh_token,  \* TwitchAPIClient.refresh_token
    token_file,     \* content of TWITCH_TOKEN_FILE
    clips,          \* rows of the clips table
    results,        \* values yielded by process_element
    token_refreshes \* requests made to the token endpoint so far

clipVars == <<cpc, handled, anomaly, attempt, clip_id, last_error, clip_data,
              io, ended, access_token, refresh_token, token_file, clips,
              results, token_refreshes>>

\* credential store (token_manager.py)
VARIABLES
    store_file,     \* content of TokenManager.token_file on disk
    manager,        \* the TokenManager instance: _access_token, _refresh_token, _scopes
    loaded,         \* how the last load_tokens call of this process ended
    spc,            \* where save_tokens stands
    token_data,     \* local token_data of a save_tokens call under way
    store_calls,    \* load_tokens and save_tokens calls made so far
    seeded,         \* the file as it was when the services started
    last_saved      \* the pair of the last save_tokens call that returned,
                    \* None once the file has been opened for writing again

storeVars == <<store_file, manager, loaded, spc, token_data, store_calls,
               seeded, last_saved>>

\* chat pump (StreamMonitoringService._on_chat_message)
VARIABLES
    chat_msgs,      \* ChatEvent.MESSAGE callbacks made so far
    chat_in,        \* <<message>> last given to _on_chat_message
    produced        \* kafka_producer.produce calls made for chat lines

chatVars == <<chat_msgs, chat_in, produced>>

\* the monitor process (main, initialize, start, stop)
VARIABLES
    service,        \* where main() is: created, running, failed, exited
    handles,        \* the external handles initialize() made, in its order
    user_auth,      \* set_user_authentication was done
    stop_pc,        \* where stop() is: none, chat_stop, twitch_close, done,
                    \* cancelled
    stop_log,       \* what stop() has stopped, flushed and released, in order
    flushed,        \* <<Len(lifecycle), Len(produced)>> at the flush
    exit_code       \* <<code>> once the process has ended

svcVars == <<service, handles, user_auth, stop_pc, stop_log, flushed, exit_code>>

\* the process of the Flink job (main of clip_detector_job.py)
VARIABLES
    shutdown        \* a shutdown signal has been sent to the job

jobVars == <<shutdown>>

\* the credential file as the processes that write it share it
VARIABLES
    shared_file,    \* what the file at TWITCH_TOKEN_FILE holds, by whom
    wpc,            \* where each writer is in its save
    wpair,          \* the token pair each writer holds in memory
    wdata,          \* the record _save_tokens has read, per writer
    issued          \* token pairs the platform has issued so far

writerVars == <<shared_file, wpc, wpair, wdata, issued>>

\* a stream through one CommandFilter
VARIABLES
    filt_xs,        \* the first part of the stream, as values
    filt_ys,        \* the part that follows it
    filt_pos,       \* values of the stream handed to process_element so far
    filt_out        \* the values process_element has yielded, in order

filtVars == <<filt_xs, filt_ys, filt_pos, filt_out>>

\* loss of keyed state (the job starts again without a checkpoint)
VARIABLES
    evictions       \* times a key has lost its state so far

evictVars == <<evictions>>

\* the chat session as the platform sees it
VARIABLES
    irc_rooms       \* rooms the chat connection is a member of on the server

roomVars == <<irc_rooms>>

\* the connection pools of the monitor and of the read API
VARIABLES
    db_used,        \* connections of the monitor pool that are checked out
    upc,            \* where _upsert_streamer stands: "idle" or "held"
    upserts,        \* _upsert_streamer calls that have returned or raised
    upsert_result,  \* how the last of them ended
    api_used,       \* connections of the API pool that are checked out
    reqs            \* requests of the API in flight, counted by position

poolVars == <<db_used, upc, upserts, upsert_result, api_used, reqs>>


(***************************************************************************)
(* CommandFilter                                                           *)
(***************************************************************************)
\* faulty variant: the pattern applied with fullmatch (every character after "!"
\* must be alphanumeric)
COMMAND_PATTERN_fullmatch(text) ==
    /\ Len(text) >= 2
    /\ text[1] = "!"
    /\ \A i \in 2..Len(text) : text[i] \in Alnum

\* COMMAND_PATTERN = re.compile(r"^![a-zA-Z0-9]+"); .match(text) anchors at
\* position 0 and needs "!" followed by at least one alphanumeric.
COMMAND_PATTERN_match(text) ==
    /\ Len(text) >= 2
    /\ text[1] = "!"
    /\ text[2] \in Alnum

\* faulty variant: lines of one channel are yielded whatever their text
CommandFilter_by_channel(value) ==
    IF value.broadcaster_id = 111 \/ ~ COMMAND_PATTERN_match(value.text)
    THEN <<value>> ELSE <<>>

\* CommandFilter.process_element: the sequence of values it yields
CommandFilter(value) ==
    IF ~ COMMAND_PATTERN_match(value.text) THEN <<value>> ELSE <<>>

\* the values of a stream: a chat line, a bot command and a lone "!" on
\* each channel
FilterValues ==
    {[broadcaster_id |-> ch, timestamp |-> T0 * 1000, text |-> text] :
        ch \in Channels, text \in {<<"a">>, <<"!", "a">>, <<"!">>}}

\* the streams of at most MaxLen values
RECURSIVE StreamsOf(_)
StreamsOf(n) ==
    IF n = 0 THEN {<<>>}
    ELSE LET shorter == StreamsOf(n - 1)
         IN  shorter \cup {Append(xs, v) : xs \in shorter, v \in FilterValues}

\* the operator instance takes the next value of the stream xs ++ ys and
\* what process_element yields goes downstream in order
FilterElement ==
    LET stream == filt_xs \o filt_ys
    IN  /\ filt_pos < Len(stream)
        /\ filt_pos' = filt_pos + 1
        /\ filt_out' = filt_out \o CommandFilter(stream[filt_pos + 1])
        /\ UNCHANGED <<filt_xs, filt_ys>>

InitFilt ==
    /\ filt_xs = <<>>
    /\ filt_ys = <<>>
    /\ filt_pos = 0
    /\ filt_out = <<>>

\* a stream in two parts, nothing of it filtered yet
InitFiltAny ==
    /\ filt_xs \in StreamsOf(MaxLen)
    /\ filt_ys \in StreamsOf(MaxLen)
    /\ filt_pos = 0
    /\ filt_out = <<>>

NextStream ==
    FilterElement
    /\ UNCHANGED <<detVars, monVars, clipVars, storeVars, chatVars, svcVars,
                   jobVars, writerVars,
                      evictVars,
                      roomVars,
                      poolVars>>

(***************************************************************************)
(* AnomalyDetector.process_element                                         *)
(***************************************************************************)
EmptyMap == [b \in {} |-> 0]

\* message_counts.put(bucket, current_count + 1)
PutBucket(mc, bucket) ==
    [b \in (DOMAIN mc) \cup {bucket} |->
        IF b = bucket
        THEN (IF bucket \in DOMAIN mc THEN mc[bucket] ELSE 0) + 1
        ELSE mc[b]]

\* faulty variant: the bucket at baseline_start is kept one second longer
EvictOld_late(mc, current_time) ==
    LET baseline_start == current_time - BASELINE_WINDOW_SECONDS
    IN  [b \in {k \in DOMAIN mc : ~ (k < baseline_start - 1)} |-> mc[b]]

\* the loop over message_counts.keys(): buckets older than baseline_start
\* are removed, every other bucket stays
EvictOld(mc, current_time) ==
    LET baseline_start == current_time - BASELINE_WINDOW_SECONDS
    IN  [b \in {k \in DOMAIN mc : ~ (k < baseline_start)} |-> mc[b]]

\* keys whose count is appended to counts_baseline
BaselineKeys(mc, current_time) ==
    {b \in DOMAIN mc : b >= current_time - BASELINE_WINDOW_SECONDS}

\* keys whose count is appended to counts_window
WindowKeys(mc, current_time) ==
    {b \in BaselineKeys(mc, current_time) :
        b >= current_time - WINDOW_SIZE_SECONDS}

RECURSIVE SumByValue(_, _, _, _)
\* sum of v (or v*v) over the counts v of the given keys, grouped by the
\* distinct values in vals
SumByValue(mc, keys, vals, sq) ==
    IF vals = {} THEN 0
    ELSE LET v == CHOOSE x \in vals : TRUE
             c == Cardinality({b \in keys : mc[b] = v})
         IN  (IF sq THEN v * v ELSE v) * c
             + SumByValue(mc, keys, vals \ {v}, sq)

\* sum(counts) for the counts of the given keys
SumCounts(mc, keys) ==
    SumByValue(mc, keys, {mc[b] : b \in keys}, FALSE)

\* sum of squares of the counts of the given keys
SumSquares(mc, keys) ==
    SumByValue(mc, keys, {mc[b] : b \in keys}, TRUE)

\* statistics.mean / statistics.stdev of counts_baseline, kept exact:
\* n = len, S = sum, V = n*sum(x^2) - S^2, so that mean = S/n and
\* stdev^2 = V / (n*(n-1))
BaselineStats(mc, keys) ==
    LET n == Cardinality(keys)
        S == SumCounts(mc, keys)
        Q == SumSquares(mc, keys)
    IN  [n |-> n, S |-> S, V |-> n * Q - S * S]

\* faulty variant: the "and std_dev > 0" conjunct left out
StdPositive_dropped(st) == TRUE

\* std_dev > 0
StdPositive(st) == st.V > 0

\* window_sum > mean + STD_DEV_THRESHOLD * std_dev, in exact arithmetic.
\* With A = window_sum*n - S and k = STD_DEV_THRESHOLD:
\*   window_sum - S/n > k*sqrt(V/(n(n-1)))
\*     <=> A > 0 /\ A^2 * (n-1) > k^2 * n * V
\*     <=> A > 0 /\ A^2 > floor(k^2 * n * V / (n-1))
AboveThreshold(window_sum, st) ==
    LET A == window_sum * st.n - st.S
        k == STD_DEV_THRESHOLD
    IN  /\ A > 0
        /\ A * A > (k * k * st.n * st.V) \div (st.n - 1)

\* faulty variant: the cooldown compared with >= instead of >
CooldownPassed_ge(last_anomaly, current_ms) ==
    \/ last_anomaly = None
    \/ /\ last_anomaly # None
       /\ (current_ms - last_anomaly[1]) >= (COOLDOWN_SECONDS * 1000)

\* last_anomaly is None or (current_ms - last_anomaly) > COOLDOWN_SECONDS*1000
CooldownPassed(last_anomaly, current_ms) ==
    \/ last_anomaly = None
    \/ /\ last_anomaly # None
       /\ (current_ms - last_anomaly[1]) > (COOLDOWN_SECONDS * 1000)

\* faulty variant: the warm-up asks for two buckets more
WarmingUp_long(nbaseline) == nbaseline < min_required + 2

\* faulty variant: twenty buckets are enough
WarmingUp_brief(nbaseline) == nbaseline < COOLDOWN_SECONDS - 10

\* len(counts_baseline) < min_required: return
WarmingUp(nbaseline) == nbaseline < min_required

\* does process_element yield an anomaly, given the map after put+eviction
DetectorFires(mc, last_anomaly, current_time) ==
    LET bk == BaselineKeys(mc, current_time)
        wk == WindowKeys(mc, current_time)
        st == BaselineStats(mc, bk)
        window_sum == SumCounts(mc, wk)
    IN  /\ ~ WarmingUp(Cardinality(bk))
        /\ Cardinality(bk) >= 2
        /\ AboveThreshold(window_sum, st)
        /\ StdPositive(st)
        /\ CooldownPassed(last_anomaly, current_time * 1000)

\* the anomaly JSON that is yielded
AnomalyEvent(ch, mc, current_time) ==
    LET bk == BaselineKeys(mc, current_time)
        wk == WindowKeys(mc, current_time)
        st == BaselineStats(mc, bk)
    IN  [broadcaster_id |-> ch,
         detected_at    |-> current_time * 1000,
         message_count  |-> SumCounts(mc, wk),
         baseline_mean  |-> <<st.S, st.n>>,
         baseline_var   |-> <<st.V, st.n * (st.n - 1)>>]

\* AnomalyDetector.process_element for one record of key value.broadcaster_id
AnomalyDetector(value) ==
    LET ch     == value.broadcaster_id
        bucket == value.timestamp \div 1000
        mc     == EvictOld(PutBucket(message_counts[ch], bucket), now)
        fires  == DetectorFires(mc, last_anomaly_time[ch], now)
    IN  /\ message_counts' = [message_counts EXCEPT ![ch] = mc]
        /\ last_anomaly_time' =
              IF fires THEN [last_anomaly_time EXCEPT ![ch] = <<now * 1000>>]
              ELSE last_anomaly_time
        /\ anomalies' =
              IF fires THEN Append(anomalies, AnomalyEvent(ch, mc, now))
              ELSE anomalies

(***************************************************************************)
(* The pipeline of main(): source -> CommandFilter -> key_by -> detector   *)
(***************************************************************************)
\* timestamps (ms, stamped by the monitor's clock) a record may carry when
\* the detector's clock reads t: the last millisecond of second t, and the
\* first millisecond of second t+1 (the monitor's clock runs ahead)
Timestamps(t) == {t * 1000 + 999, (t + 1) * 1000}

KafkaRecord(ch, text, ts) ==
    LET value == [broadcaster_id |-> ch, timestamp |-> ts, text |-> text]
    IN  /\ offset < MaxRecords
        /\ offset' = offset + 1
        /\ cf_in' = <<value>>
        /\ cf_out' = CommandFilter(value)
        /\ IF cf_out' # <<>>
           THEN AnomalyDetector(cf_out'[1])
           ELSE UNCHANGED <<message_counts, last_anomaly_time, anomalies>>
        /\ UNCHANGED <<now, nticks>>

\* time.time() advances between two records
ClockAdvance(d) ==
    /\ nticks < MaxTicks
    /\ nticks' = nticks + 1
    /\ now' = now + d
    /\ UNCHANGED <<offset, cf_in, cf_out, message_counts, last_anomaly_time,
                   anomalies>>

\* keyed state a channel can have accumulated before the model starts: one
\* message in each of the k seconds before T0, and extra further messages
\* in the middle one of these seconds
History(k, extra) ==
    [b \in (T0 - k)..(T0 - 1) |-> IF b = T0 - (k \div 2) THEN 1 + extra ELSE 1]

\* nothing yet; one bucket short of the warm-up with equal counts; a full
\* baseline window with unequal counts
InitHistories ==
    {History(0, 0), History(min_required - 1, 0),
     History(BASELINE_WINDOW_SECONDS, 1)}

InitDetectorCold ==
    /\ now = T0
    /\ nticks = 0
    /\ offset = 0
    /\ cf_in = None
    /\ cf_out = <<>>
    /\ message_counts = [c \in Channels |-> EmptyMap]
    /\ last_anomaly_time = [c \in Channels |-> None]
    /\ anomalies = <<>>

InitDetector ==
    /\ now = T0
    /\ nticks = 0
    /\ offset = 0
    /\ cf_in = None
    /\ cf_out = <<>>
    /\ \E h \in InitHistories : message_counts = [c \in Channels |-> h]
    /\ last_anomaly_time = [c \in Channels |-> None]
    /\ anomalies = <<>>

NextDetector ==
    \/ /\ \E ch \in Channels, text \in DetTexts, ts \in Timestamps(now) :
             KafkaRecord(ch, text, ts)
       /\ UNCHANGED <<monVars, clipVars, storeVars, chatVars, svcVars, jobVars, writerVars, filtVars, evictVars, roomVars, poolVars>>
    \/ /\ \E d \in TickSteps : ClockAdvance(d)
       /\ UNCHANGED <<monVars, clipVars, storeVars, chatVars, svcVars, jobVars, writerVars, filtVars, evictVars, roomVars, poolVars>>

\* the spike scenario: one channel receives SpikeRate chat lines in each of
\* SpikeSeconds successive seconds, then SpikeBurst lines in the next second
SpikeRate == 5

SpikeSeconds == 300

SpikeBurst == 25

\* the channel of the scenario, 111
SpikeChannel == CHOOSE c \in Channels : \A d \in Channels : c <= d

SpikeRecords == SpikeRate * SpikeSeconds + SpikeBurst

\* the second in which the k-th line of the scenario (from 0) is sent
SpikeSecond(k) ==
    IF k < SpikeRate * SpikeSeconds THEN T0 + (k \div SpikeRate)
    ELSE T0 + SpikeSeconds

\* time.time() reaches the second of the next line of the scenario
SpikeClock ==
    /\ offset < SpikeRecords
    /\ now < SpikeSecond(offset)
    /\ now' = SpikeSecond(offset)
    /\ UNCHANGED <<nticks, offset, cf_in, cf_out, message_counts,
                   last_anomaly_time, anomalies>>

\* the next line of the scenario goes through CommandFilter and
\* AnomalyDetector within the second it was sent in
SpikeRecord ==
    LET value == [broadcaster_id |-> SpikeChannel,
                  timestamp |-> SpikeSecond(offset) * 1000,
                  text |-> <<"a">>]
    IN  /\ offset < SpikeRecords
        /\ now = SpikeSecond(offset)
        /\ offset' = offset + 1
        /\ cf_in' = <<value>>
        /\ cf_out' = CommandFilter(value)
        /\ IF cf_out' # <<>>
           THEN AnomalyDetector(cf_out'[1])
           ELSE UNCHANGED <<message_counts, last_anomaly_time, anomalies>>
        /\ UNCHANGED <<now, nticks>>

NextSpike ==
    \/ SpikeClock /\ UNCHANGED <<monVars, clipVars, storeVars, chatVars, svcVars, jobVars, writerVars, filtVars, evictVars, roomVars, poolVars>>
    \/ SpikeRecord /\ UNCHANGED <<monVars, clipVars, storeVars, chatVars, svcVars, jobVars, writerVars, filtVars, evictVars, roomVars, poolVars>>

(***************************************************************************)
(* Loss of keyed state.  The job has no checkpointing and reads the topic  *)
(* from KafkaOffsetsInitializer.latest(): when it starts again, open()     *)
(* hands out empty descriptors, so a key has no buckets and no             *)
(* last_anomaly_time.                                                      *)
(***************************************************************************)
MaxEvictions == 1

\* the steady scenario: one channel receives a chat line in every second,
\* and a second line in the second after every EvictDouble-th; the other
\* channel receives a line in every EvictOther-th second
EvictSeconds == 245

EvictDouble == 100

EvictOther == 40

\* the lines of second k (from 0) of the scenario, in the order sent
EvictLines(k) ==
    <<SpikeChannel>>
    \o (IF k % EvictDouble = 1 THEN <<SpikeChannel>> ELSE <<>>)
    \o (IF k % EvictOther = 0
        THEN <<CHOOSE c \in Channels : c # SpikeChannel>> ELSE <<>>)

\* lines of the scenario sent before second k
EvictSent(k) ==
    k + ((k + EvictDouble - 2) \div EvictDouble)
      + ((k + EvictOther - 1) \div EvictOther)

\* time.time() reaches the next second once the lines of this one are read
EvictClock ==
    /\ now - T0 < EvictSeconds
    /\ offset = EvictSent(now - T0 + 1)
    /\ now' = now + 1
    /\ UNCHANGED <<nticks, offset, cf_in, cf_out, message_counts,
                   last_anomaly_time, anomalies, evictions>>

\* the next line of the scenario goes through CommandFilter and
\* AnomalyDetector within the second it was sent in
EvictRecord ==
    LET k     == now - T0
        lines == EvictLines(k)
        i     == offset - EvictSent(k) + 1
        value == [broadcaster_id |-> lines[i],
                  timestamp |-> now * 1000,
                  text |-> <<"a">>]
    IN  /\ k <= EvictSeconds
        /\ i \in 1..Len(lines)
        /\ offset' = offset + 1
        /\ cf_in' = <<value>>
        /\ cf_out' = CommandFilter(value)
        /\ IF cf_out' # <<>>
           THEN AnomalyDetector(cf_out'[1])
           ELSE UNCHANGED <<message_counts, last_anomaly_time, anomalies>>
        /\ UNCHANGED <<now, nticks, evictions>>

\* the state of one key is gone: open() on a fresh runtime context
Evict(ch) ==
    /\ evictions < MaxEvictions
    /\ evictions' = evictions + 1
    /\ message_counts' = [message_counts EXCEPT ![ch] = EmptyMap]
    /\ last_anomaly_time' = [last_anomaly_time EXCEPT ![ch] = None]
    /\ UNCHANGED <<now, nticks, offset, cf_in, cf_out, anomalies>>

InitEvict == evictions = 0

NextEvict ==
    \/ EvictClock /\ UNCHANGED <<monVars, clipVars, storeVars, chatVars, svcVars, jobVars, writerVars, filtVars, roomVars, poolVars>>
    \/ EvictRecord /\ UNCHANGED <<monVars, clipVars, storeVars, chatVars, svcVars, jobVars, writerVars, filtVars, roomVars, poolVars>>
    \/ /\ \E ch \in Channels : Evict(ch)
       /\ UNCHANGED <<monVars, clipVars, storeVars, chatVars, svcVars, jobVars, writerVars, filtVars, roomVars, poolVars>>

NextFilter ==
    /\ \E ch \in Channels, text \in Texts, ts \in Timestamps(now) :
          KafkaRecord(ch, text, ts)
    /\ UNCHANGED <<monVars, clipVars, storeVars, chatVars, svcVars, jobVars, writerVars, filtVars, evictVars, roomVars, poolVars>>

(***************************************************************************)
(* Fleet monitor: StreamMonitoringService                                  *)
(***************************************************************************)
\* seq with e inserted at position pos (at the end if pos is beyond it)
InsertAt(seq, pos, e) ==
    LET p == Min(pos, Len(seq) + 1)
    IN  SubSeq(seq, 1, p - 1) \o <<e>> \o SubSeq(seq, p, Len(seq))

\* a sequence of live channels, best first, as twitch.get_streams yields
\* it: the fillers with the mover at rank r
Listing(r) == InsertAt(Fillers, r, Mover)

\* the listings offered to a poll, and no live channel at all
Listings == {Listing(r) : r \in MoverRanks} \cup {<<>>}

\* int(stream.user_id) of a channel
UserId(login) ==
    IF login = Mover THEN 501
    ELSE 100 + (CHOOSE i \in 1..Len(Fillers) : Fillers[i] = login)

\* the redis call of which loop iteration raises: 0 none, k the call for the
\* stream of rank k, LEAVE_THRESHOLD + 1 the exists() of the offline loop
RedisFailPoints == {0, JOIN_THRESHOLD + 1, LEAVE_THRESHOLD + 1}

\* logins whose lifecycle event kafka_producer.produce refuses in a tick
PublishFailures == {{}, Logins}

\* the async-for loop of poll_top_streams: it stops at LEAVE_THRESHOLD
Collected(listing) == SubSeq(listing, 1, Min(Len(listing), LEAVE_THRESHOLD))

\* faulty variant: the join set built with LEAVE_THRESHOLD
TopJoin_wide(ranked, n) ==
    {ranked[r] : r \in {q \in 1..n : q <= LEAVE_THRESHOLD}}

\* top_join_streamers after the first n iterations of the rank loop
TopJoin(ranked, n) ==
    {ranked[r] : r \in {q \in 1..n : q <= JOIN_THRESHOLD}}

\* faulty variant: the leave set built with JOIN_THRESHOLD
TopLeave_narrow(ranked, n) ==
    {ranked[r] : r \in {q \in 1..n : q <= JOIN_THRESHOLD}}

\* top_leave_streamers after the first n iterations of the rank loop
TopLeave(ranked, n) ==
    {ranked[r] : r \in {q \in 1..n : q <= LEAVE_THRESHOLD}}

\* self.broadcaster_ids after the first n iterations of the rank loop
IdsAfter(ids, ranked, n) ==
    LET seen == {ranked[r] : r \in 1..n}
    IN  [l \in (DOMAIN ids) \cup seen |->
            IF l \in seen THEN UserId(l) ELSE ids[l]]

\* the TTL of every key after POLL_INTERVAL_SECONDS have gone by
Elapse(ttl) == [l \in Logins |-> Max(0, ttl[l] - POLL_INTERVAL_SECONDS)]

\* redis_client.setex for the streams of the first n completed iterations
SetexAfter(ttl, ranked, n) ==
    [l \in Logins |->
        IF l \in {ranked[r] : r \in 1..n} THEN REDIS_STREAMER_TTL ELSE ttl[l]]

\* not redis_client.exists(redis_key)
KeyMissing(ttl, login) == ttl[login] = 0

LifecycleEvent(event_type, login, rank) ==
    [event_type |-> event_type, broadcaster_id |-> UserId(login),
     broadcaster_login |-> login, rank |-> rank]

\* "online" events of the first n completed iterations, in rank order: the
\* key did not exist and rank <= JOIN_THRESHOLD; produce() may refuse some
OnlineEvents(ttl, ranked, n, pub_fail) ==
    LET all == [r \in 1..n |-> LifecycleEvent("online", ranked[r], r)]
        Published(e) == /\ KeyMissing(ttl, e.broadcaster_login)
                        /\ e.rank <= JOIN_THRESHOLD
                        /\ e.broadcaster_login \notin pub_fail
    IN  SelectSeq(all, Published)

\* faulty variant: "offline" for every joined channel out of the ranking,
\* whatever its key
OfflineLogins_left(joined, top_leave, ttl) ==
    {l \in joined : l \notin top_leave}

\* the logins the offline loop publishes for: joined, not in
\* top_leave_streamers, key expired; self.broadcaster_ids.get(login, 0)
OfflineLogins(joined, top_leave, ttl) ==
    {l \in joined : l \notin top_leave /\ KeyMissing(ttl, l)}

RECURSIVE OfflineEvents(_, _, _)
\* the "offline" events of the offline loop (rank 0)
OfflineEvents(logins, ids, pub_fail) ==
    IF logins = {} THEN <<>>
    ELSE LET l == CHOOSE c \in logins : TRUE
             e == [event_type |-> "offline",
                   broadcaster_id |-> IF l \in DOMAIN ids THEN ids[l] ELSE 0,
                   broadcaster_login |-> l, rank |-> 0]
         IN  (IF l \in pub_fail THEN <<>> ELSE <<e>>)
             \o OfflineEvents(logins \ {l}, ids, pub_fail)

\* channels_to_join = join_eligible - self.joined_channels
ChannelsToJoin(join_eligible, joined) == join_eligible \ joined

\* faulty variant: a joined channel is left as soon as it is out of the
\* set it was given, the top LEAVE_THRESHOLD or not
ChannelsToLeave_any(joined, leave_eligible) ==
    {c \in joined : c \notin leave_eligible \/ c = Mover}

\* channels_to_leave = self.joined_channels - leave_eligible
ChannelsToLeave(joined, leave_eligible) == joined \ leave_eligible

\* where _manage_chat_connections continues once to_join / to_leave are known
ManageStage(to_join, to_leave) ==
    IF to_join # {} THEN "joining"
    ELSE IF to_leave # {} THEN "leaving"
    ELSE "idle"

\* the scheduler fires poll_top_streams: bookkeeping common to every tick
TickBegins ==
    /\ mpc = "idle"
    /\ polls < MaxPolls
    /\ polls' = polls + 1
    /\ joined_prev' = joined_channels
    /\ room_calls' = {}

\* faulty variant: after the listing error the tick goes on to converge the
\* membership against an empty ranking
PollListingFails_converges ==
    /\ TickBegins
    /\ listed' = FALSE
    /\ poll_errors' = poll_errors + 1
    /\ redis_ttl' = Elapse(redis_ttl)
    /\ streams' = <<>>
    /\ top_join_streamers' = {}
    /\ top_leave_streamers' = {}
    /\ channels_to_join' = {}
    /\ channels_to_leave' = joined_channels
    /\ mpc' = ManageStage({}, joined_channels)
    /\ UNCHANGED <<joined_channels, broadcaster_ids, chat, lifecycle,
                   room_failures>>

\* poll_top_streams: twitch.get_streams raises; the except clause counts it
PollListingFails ==
    /\ TickBegins
    /\ listed' = FALSE
    /\ poll_errors' = poll_errors + 1
    /\ redis_ttl' = Elapse(redis_ttl)
    /\ streams' = <<>>
    /\ top_join_streamers' = {}
    /\ top_leave_streamers' = {}
    /\ channels_to_join' = {}
    /\ channels_to_leave' = {}
    /\ mpc' = "idle"
    /\ UNCHANGED <<joined_channels, broadcaster_ids, chat, lifecycle,
                   room_failures>>

\* poll_top_streams: get_streams yields the listing; the rank loop, the
\* offline loop and the entry of _manage_chat_connections run up to the
\* first await (Chat(), join_room or leave_room)
PollListed(listing, fail_at, pub_fail) ==
    LET got         == Collected(listing)
        ttl0        == Elapse(redis_ttl)
        stream_fail == fail_at \in 1..Len(got)
        \* iterations that reached line 228 / that completed
        begun       == IF stream_fail THEN fail_at ELSE Len(got)
        done        == IF stream_fail THEN fail_at - 1 ELSE Len(got)
        top_join    == TopJoin(got, begun)
        top_leave   == TopLeave(got, begun)
        ids         == IdsAfter(broadcaster_ids, got, begun)
        ttl1        == SetexAfter(ttl0, got, done)
        online      == OnlineEvents(ttl0, got, done, pub_fail)
        gone        == joined_channels \ top_leave
        offl_fail   == /\ ~ stream_fail
                       /\ fail_at = LEAVE_THRESHOLD + 1
                       /\ gone # {}
        offline     == OfflineEvents(
                          OfflineLogins(joined_channels, top_leave, ttl1),
                          ids, pub_fail)
        to_join     == ChannelsToJoin(top_join, joined_channels)
        to_leave    == ChannelsToLeave(joined_channels, top_leave)
    IN  /\ TickBegins
        /\ listed' = TRUE
        /\ streams' = got
        /\ broadcaster_ids' = ids
        /\ redis_ttl' = ttl1
        /\ top_join_streamers' = top_join
        /\ top_leave_streamers' = top_leave
        /\ UNCHANGED <<joined_channels, chat, room_failures>>
        /\ IF stream_fail \/ offl_fail
           THEN \* the exception reaches the except clause of the tick
                /\ lifecycle' = lifecycle \o online
                /\ poll_errors' = poll_errors + 1
                /\ channels_to_join' = {}
                /\ channels_to_leave' = {}
                /\ mpc' = "idle"
           ELSE /\ lifecycle' = lifecycle \o online \o offline
                /\ poll_errors' = poll_errors
                /\ channels_to_join' = to_join
                /\ channels_to_leave' = to_leave
                /\ mpc' = IF to_join # {} /\ chat = None
                          THEN "chat_init"
                          ELSE ManageStage(to_join, to_leave)

\* _manage_chat_connections: await Chat(self.twitch) returns or raises
ChatInit(ok) ==
    /\ mpc = "chat_init"
    /\ IF ok
       THEN /\ chat' = <<"Chat">>
            /\ mpc' = ManageStage(channels_to_join, channels_to_leave)
            /\ UNCHANGED <<channels_to_join, channels_to_leave>>
       ELSE \* logged, then return
            /\ chat' = chat
            /\ mpc' = "idle"
            /\ channels_to_join' = {}
            /\ channels_to_leave' = {}
    /\ UNCHANGED <<polls, room_failures, joined_channels, broadcaster_ids,
                   redis_ttl, lifecycle, poll_errors, streams, top_join_streamers,
                   top_leave_streamers, listed, joined_prev, room_calls>>

RoomCall(op, channel, ok) == [op |-> op, channel |-> channel, ok |-> ok]

\* faulty variant: the channel is recorded as joined before join_room
\* has returned, and stays recorded when it raises
JoinRoom_optimistic(channel, ok) ==
    /\ mpc = "joining"
    /\ channel \in channels_to_join
    /\ ok \/ room_failures < MaxRoomFailures
    /\ room_failures' = IF ok THEN room_failures ELSE room_failures + 1
    /\ joined_channels' = joined_channels \cup {channel}
    /\ room_calls' = room_calls \cup {RoomCall("join_room", channel, ok)}
    /\ channels_to_join' = channels_to_join \ {channel}
    /\ mpc' = ManageStage(channels_to_join', channels_to_leave)
    /\ UNCHANGED <<polls, broadcaster_ids, chat, redis_ttl, lifecycle,
                   poll_errors, streams, top_join_streamers, top_leave_streamers,
                   channels_to_leave, listed, joined_prev>>

\* one iteration of "for channel in channels_to_join": await join_room
JoinRoom(channel, ok) ==
    /\ mpc = "joining"
    /\ channel \in channels_to_join
    /\ ok \/ room_failures < MaxRoomFailures
    /\ room_failures' = IF ok THEN room_failures ELSE room_failures + 1
    /\ joined_channels' =
          IF ok THEN joined_channels \cup {channel} ELSE joined_channels
    /\ room_calls' = room_calls \cup {RoomCall("join_room", channel, ok)}
    /\ channels_to_join' = channels_to_join \ {channel}
    /\ mpc' = ManageStage(channels_to_join', channels_to_leave)
    /\ UNCHANGED <<polls, broadcaster_ids, chat, redis_ttl, lifecycle,
                   poll_errors, streams, top_join_streamers, top_leave_streamers,
                   channels_to_leave, listed, joined_prev>>

\* one iteration of "for channel in channels_to_leave": await leave_room
LeaveRoom(channel, ok) ==
    /\ mpc = "leaving"
    /\ channel \in channels_to_leave
    /\ ok \/ room_failures < MaxRoomFailures
    /\ room_failures' = IF ok THEN room_failures ELSE room_failures + 1
    /\ joined_channels' =
          IF ok THEN joined_channels \ {channel} ELSE joined_channels
    /\ room_calls' = room_calls \cup {RoomCall("leave_room", channel, ok)}
    /\ channels_to_leave' = channels_to_leave \ {channel}
    /\ mpc' = ManageStage(channels_to_join, channels_to_leave')
    /\ UNCHANGED <<polls, broadcaster_ids, chat, redis_ttl, lifecycle,
                   poll_errors, streams, top_join_streamers, top_leave_streamers,
                   channels_to_join, listed, joined_prev>>

\* StreamMonitoringService.__init__, nothing polled yet
InitMonitor ==
    /\ mpc = "idle"
    /\ polls = 0
    /\ room_failures = 0
    /\ joined_channels = {}
    /\ broadcaster_ids = [l \in {} |-> 0]
    /\ chat = None
    /\ redis_ttl = [l \in Logins |-> 0]
    /\ lifecycle = <<>>
    /\ poll_errors = 0
    /\ streams = <<>>
    /\ top_join_streamers = {}
    /\ top_leave_streamers = {}
    /\ channels_to_join = {}
    /\ channels_to_leave = {}
    /\ listed = FALSE
    /\ joined_prev = {}
    /\ room_calls = {}

NextMonitor ==
    \/ PollListingFails /\ UNCHANGED <<detVars, clipVars, storeVars, chatVars, svcVars, jobVars, writerVars, filtVars, evictVars, roomVars, poolVars>>
    \/ /\ \E listing \in Listings, fail_at \in RedisFailPoints,
             pub_fail \in PublishFailures :
             PollListed(listing, fail_at, pub_fail)
       /\ UNCHANGED <<detVars, clipVars, storeVars, chatVars, svcVars, jobVars, writerVars, filtVars, evictVars, roomVars, poolVars>>
    \/ (\E ok \in BOOLEAN : ChatInit(ok)) /\ UNCHANGED <<detVars, clipVars, storeVars, chatVars, svcVars, jobVars, writerVars, filtVars, evictVars, roomVars, poolVars>>
    \/ (\E c \in Logins, ok \in BOOLEAN : JoinRoom(c, ok)) /\ UNCHANGED <<detVars, clipVars, storeVars, chatVars, svcVars, jobVars, writerVars, filtVars, evictVars, roomVars, poolVars>>
    \/ (\E c \in Logins, ok \in BOOLEAN : LeaveRoom(c, ok)) /\ UNCHANGED <<detVars, clipVars, storeVars, chatVars, svcVars, jobVars, writerVars, filtVars, evictVars, roomVars, poolVars>>

\* ticks in which nothing fails: the listing, the redis calls, produce(),
\* Chat() and every join_room and leave_room
NextConverge ==
    \/ (\E listing \in Listings : PollListed(listing, 0, {}))
       /\ UNCHANGED <<detVars, clipVars, storeVars, chatVars, svcVars, jobVars,
                      writerVars, filtVars,
                      evictVars,
                      roomVars,
                      poolVars>>
    \/ ChatInit(TRUE)
       /\ UNCHANGED <<detVars, clipVars, storeVars, chatVars, svcVars, jobVars,
                      writerVars, filtVars,
                      evictVars,
                      roomVars,
                      poolVars>>
    \/ (\E c \in Logins : JoinRoom(c, TRUE))
       /\ UNCHANGED <<detVars, clipVars, storeVars, chatVars, svcVars, jobVars,
                      writerVars, filtVars,
                      evictVars,
                      roomVars,
                      poolVars>>
    \/ (\E c \in Logins : LeaveRoom(c, TRUE))
       /\ UNCHANGED <<detVars, clipVars, storeVars, chatVars, svcVars, jobVars,
                      writerVars, filtVars,
                      evictVars,
                      roomVars,
                      poolVars>>

\* the hysteresis scenario: the ranks of the mover in the listing of the
\* p-th poll: within the top JOIN_THRESHOLD in the first, below it and within
\* the top LEAVE_THRESHOLD in the second, below that from the third on
HysteresisRanks(p) ==
    IF p = 1 THEN 1..JOIN_THRESHOLD
    ELSE IF p = 2 THEN (JOIN_THRESHOLD + 1)..LEAVE_THRESHOLD
    ELSE {LEAVE_THRESHOLD + 1}

\* a tick of the scenario: the listing succeeds, no redis call and no
\* produce() fails
HysteresisPoll ==
    \E r \in HysteresisRanks(polls + 1) : PollListed(Listing(r), 0, {})

\* the scenario's ticks, every Chat(), join_room and leave_room succeeding
NextHysteresis ==
    \/ HysteresisPoll /\ UNCHANGED <<detVars, clipVars, storeVars, chatVars, svcVars, jobVars, writerVars, filtVars, evictVars, roomVars, poolVars>>
    \/ ChatInit(TRUE) /\ UNCHANGED <<detVars, clipVars, storeVars, chatVars, svcVars, jobVars, writerVars, filtVars, evictVars, roomVars, poolVars>>
    \/ (\E c \in Logins : JoinRoom(c, TRUE))
       /\ UNCHANGED <<detVars, clipVars, storeVars, chatVars, svcVars, jobVars, writerVars, filtVars, evictVars, roomVars, poolVars>>
    \/ (\E c \in Logins : LeaveRoom(c, TRUE))
       /\ UNCHANGED <<detVars, clipVars, storeVars, chatVars, svcVars, jobVars, writerVars, filtVars, evictVars, roomVars, poolVars>>

(***************************************************************************)
(* Clip creator: constants of clip_detector_job.py                         *)
(***************************************************************************)
RETRYABLE_STATUS_CODES == {408, 429, 500, 502, 503, 504}

\* seconds slept before attempt 1, 2, 3
RETRY_DELAYS == <<0, 3, 6>>

\* time.sleep(15) between a successful create_clip and get_clip
CLIP_PROCESSING_WAIT == 15

(***************************************************************************)
(* Bounds of the clip creator model                                        *)
(***************************************************************************)
\* anomalies handed to ClipCreator.process_element in one behaviour
MaxAnomalies == 2

\* clip ids the platform hands out; the same id can be handed out twice
ClipIds == {"c1", "c2"}

\* statuses of an error reply of the platform, 401 apart
ErrorStatuses == {403, 429, 503}

\* token refreshes the platform makes necessary in one behaviour: it answers
\* 401 to a first request only while fewer refreshes have been requested
MaxRefreshes == 1

\* load_tokens and save_tokens calls made in one behaviour of the store
MaxStoreCalls == 4

\* chat messages delivered to the monitor in one behaviour
MaxMessages == 2

\* records taken by the subtask of the job in one behaviour
MaxJobRecords == 2

\* token pairs the platform issues in one behaviour of the writers
MaxPairs == 3

\* the k-th anomaly the detector hands over, for a channel: successive
\* anomalies are detected more than the cooldown apart
ClipAnomaly(k, ch) ==
    [broadcaster_id |-> ch,
     detected_at    |-> (T0 + k * (COOLDOWN_SECONDS + 1)) * 1000]

\* clip metadata of the platform; a field the reply lacks is None
Metas ==
    {[embed_url |-> <<"e1">>, thumbnail_url |-> <<"t1">>],
     [embed_url |-> <<"e2">>, thumbnail_url |-> None]}

\* the credential file when the job starts
InitialScopes == <<"clips:edit">>

(***************************************************************************)
(* Replies of the platform, as the requests library reports them           *)
(***************************************************************************)
\* an HTTP reply with a JSON body; data is the body's "data" list, at most
\* its first element
Http(status, data) == [kind |-> "http", status |-> status, data |-> data]

\* requests.exceptions.Timeout
TimedOut == [kind |-> "timeout", status |-> 0, data |-> None]

\* requests.exceptions.ConnectionError
ConnectionFailed == [kind |-> "connection_error", status |-> 0, data |-> None]

\* a reply with this status whose body response.json() or the field access
\* cannot read; the code reads the body only of a 202 (create_clip) or a 200
BadBody(status) == [kind |-> "bad_body", status |-> status, data |-> None]

TransportFailures == {TimedOut, ConnectionFailed}

\* replies to POST /helix/clips
CreateReplies ==
    {Http(202, <<id>>) : id \in ClipIds}
        \cup {Http(202, None), Http(401, None), BadBody(202)}
        \cup {Http(s, None) : s \in ErrorStatuses}
        \cup TransportFailures

\* replies to POST /oauth2/token
RefreshReplies ==
    {Http(200, None), Http(400, None), BadBody(200)} \cup TransportFailures

\* replies to GET /helix/clips
GetReplies ==
    {Http(200, <<m>>) : m \in Metas}
        \cup {Http(200, None), Http(401, None), Http(404, None), BadBody(200)}
        \cup TransportFailures

\* outcomes of _save_tokens: written, or the read of the old file or the
\* open for writing failed and the file is as it was
SaveOutcomes == {"saved", "unreadable"}

(***************************************************************************)
(* TwitchAPIClient                                                         *)
(***************************************************************************)
\* class TwitchAPIError: the fields the caller reads
TwitchAPIError(status_code, is_retryable) ==
    [status_code |-> status_code, is_retryable |-> is_retryable]

\* faulty variant: every status counts as retryable
is_retryable_status_always(status_code) == TRUE

\* TwitchAPIClient._is_retryable_status
is_retryable_status(status_code) == status_code \in RETRYABLE_STATUS_CODES

\* results of a step of create_clip
Return(value) == [tag |-> "return", value |-> value, error |-> None]

Raise(error) == [tag |-> "raise", value |-> None, error |-> <<error>>]

GoRefresh == [tag |-> "refresh", value |-> None, error |-> None]

\* the except clauses of create_clip for an exception of the requests call
\* or of reading its body
CreateClipExcept(reply) ==
    IF reply.kind = "timeout" THEN Raise(TwitchAPIError(408, TRUE))
    ELSE IF reply.kind = "connection_error" THEN Raise(TwitchAPIError(0, TRUE))
    ELSE Raise(TwitchAPIError(0, FALSE))

\* create_clip up to its first reply
CreateClipFirst(reply) ==
    IF reply.kind # "http" THEN CreateClipExcept(reply)
    ELSE IF reply.status = 202 THEN
        Return(IF reply.data # None THEN reply.data ELSE None)
    ELSE IF reply.status = 401 THEN GoRefresh
    ELSE Raise(TwitchAPIError(reply.status, is_retryable_status(reply.status)))

\* faulty variant: a 401 on the re-sent request starts another refresh
CreateClipResent_again(reply) ==
    IF reply.kind = "http" /\ reply.status = 401 THEN GoRefresh
    ELSE IF reply.kind # "http" THEN CreateClipExcept(reply)
    ELSE IF reply.status = 202 /\ reply.data # None THEN Return(reply.data)
    ELSE Raise(TwitchAPIError(reply.status, FALSE))

\* create_clip from the reply to the request re-sent after a refresh
CreateClipResent(reply) ==
    IF reply.kind # "http" THEN CreateClipExcept(reply)
    ELSE IF reply.status = 202 /\ reply.data # None THEN Return(reply.data)
    ELSE Raise(TwitchAPIError(reply.status, FALSE))

\* _refresh_access_token returns normally
RefreshSucceeds(reply) == reply.kind = "http" /\ reply.status = 200

\* what create_clip raises when _refresh_access_token raised: Timeout and
\* ConnectionError reach their own clauses, HTTPError (raise_for_status) and
\* KeyError reach "except Exception"
CreateClipRefreshFailed(reply) == CreateClipExcept(reply)

\* faulty variant: the record is built anew, without the scopes of the file
SaveTokens_without_scopes(file, access, refresh, outcome) ==
    IF outcome = "saved" THEN
        [access_token |-> access, refresh_token |-> refresh, scopes |-> <<>>]
    ELSE file

\* the credential file after _save_tokens
SaveTokens(file, access, refresh, outcome) ==
    IF outcome = "saved" THEN
        [access_token |-> access, refresh_token |-> refresh,
         scopes |-> file.scopes]
    ELSE file

\* get_clip from its first reply: the metadata, None, or a refresh
GetClipFirst(reply) ==
    IF reply.kind # "http" THEN Return(None)
    ELSE IF reply.status = 200 THEN Return(reply.data)
    ELSE IF reply.status = 401 THEN GoRefresh
    ELSE Return(None)

\* get_clip from the reply to the request re-sent after a refresh
GetClipResent(reply) ==
    IF reply.kind = "http" /\ reply.status = 200 THEN Return(reply.data)
    ELSE Return(None)

\* dict.get(key, default)
GetOr(opt, default) == IF opt # None THEN opt[1] ELSE default

(***************************************************************************)
(* PostgresClient.insert_clip                                              *)
(***************************************************************************)
\* faulty variant: a row with the same clip_id is replaced (DO UPDATE)
InsertRow_replacing(table, row) ==
    {r \in table : r.clip_id # row.clip_id} \cup {row}

\* INSERT ... ON CONFLICT (clip_id) DO NOTHING.  detected_at is kept in
\* milliseconds: the conversion to a timestamp is exact for whole
\* milliseconds.
InsertRow(table, row) ==
    IF \E r \in table : r.clip_id = row.clip_id THEN table
    ELSE table \cup {row}

(***************************************************************************)
(* ClipCreator.process_element                                             *)
(***************************************************************************)
\* one entry of io: a sleep of arg seconds, or a request made in attempt arg
\* (0: by get_clip or insert_clip) that carried this token (0: none)
Did(op, arg, token) == <<op, arg, token>>

\* time.sleep(delay) before an attempt, only "if delay > 0"
RetrySleep(delay) == IF delay > 0 THEN <<Did("sleep", delay, 0)>> ELSE <<>>

\* faulty variant: a clip id does not end the loop
AttemptsOver_ignoring_success(att, cid, raised) ==
    \/ raised # None /\ ~ raised[1].is_retryable
    \/ att = Len(RETRY_DELAYS)

\* the retry loop is left after this attempt: break on a clip id, break on
\* an error that is not retryable, or RETRY_DELAYS is used up
AttemptsOver(att, cid, raised) ==
    \/ cid # None
    \/ raised # None /\ ~ raised[1].is_retryable
    \/ att = Len(RETRY_DELAYS)

\* the rest of the loop body and the "if not clip_id" that follows the loop,
\* for an attempt that returned cid (None included) or raised an error
AttemptEnds(cid, raised) ==
    /\ clip_id' = cid
    /\ last_error' = IF raised # None THEN raised ELSE last_error
    /\ IF ~ AttemptsOver(attempt, cid, raised)
       THEN /\ attempt' = attempt + 1
            /\ cpc' = "create_clip"
            /\ ended' = ended
       ELSE /\ attempt' = attempt
            /\ IF cid = None
               THEN cpc' = "idle" /\ ended' = "creation_failed"
               ELSE cpc' = "sleep15" /\ ended' = ended

\* process_element is called with an anomaly of the detector
ClipReceive(ch) ==
    /\ cpc = "idle"
    /\ handled < MaxAnomalies
    /\ handled' = handled + 1
    /\ anomaly' = <<ClipAnomaly(handled, ch)>>
    /\ attempt' = 1
    /\ clip_id' = None
    /\ last_error' = None
    /\ clip_data' = None
    /\ io' = <<>>
    /\ ended' = "running"
    /\ cpc' = "create_clip"
    /\ UNCHANGED <<access_token, refresh_token, token_file, clips, results,
                   token_refreshes>>

\* the replies the platform gives to a first request
PlatformCanReply(reply) ==
    (reply.kind = "http" /\ reply.status = 401) =>
        token_refreshes < MaxRefreshes

\* one pass of the loop up to the first reply of create_clip
CreateClipRequest(reply) ==
    LET r == CreateClipFirst(reply)
    IN  /\ cpc = "create_clip"
        /\ PlatformCanReply(reply)
        /\ io' = io \o RetrySleep(RETRY_DELAYS[attempt])
                    \o <<Did("create_clip", attempt, access_token)>>
                    \o (IF r.tag = "refresh"
                        THEN <<Did("got_401", attempt, 0)>> ELSE <<>>)
        /\ IF r.tag = "refresh"
           THEN /\ cpc' = "create_refresh"
                /\ UNCHANGED <<attempt, clip_id, last_error, ended>>
           ELSE AttemptEnds(r.value, r.error)
        /\ UNCHANGED <<handled, anomaly, clip_data, access_token,
                       refresh_token, token_file, clips, results,
                       token_refreshes>>

\* _refresh_access_token: the token request, and on a 200 the new pair and
\* _save_tokens.  The platform issues a token never seen before; it rotates
\* the refresh token or omits it from the reply.
RefreshAccessToken(reply, rotate, save, call) ==
    /\ token_refreshes' = token_refreshes + 1
    /\ IF RefreshSucceeds(reply)
       THEN LET access  == access_token + 1
                refresh == IF rotate THEN refresh_token + 1 ELSE refresh_token
            IN  /\ access_token' = access
                /\ refresh_token' = refresh
                /\ token_file' = SaveTokens(token_file, access, refresh, save)
                /\ io' = io \o <<Did("refresh", call, refresh_token),
                                 Did("save_tokens", call, access)>>
       ELSE /\ io' = Append(io, Did("refresh", call, refresh_token))
            /\ UNCHANGED <<access_token, refresh_token, token_file>>

\* create_clip after a 401: the refresh
CreateClipRefresh(reply, rotate, save) ==
    /\ cpc = "create_refresh"
    /\ RefreshAccessToken(reply, rotate, save, attempt)
    /\ IF RefreshSucceeds(reply)
       THEN /\ cpc' = "create_resend"
            /\ UNCHANGED <<attempt, clip_id, last_error, ended>>
       ELSE LET r == CreateClipRefreshFailed(reply)
            IN  AttemptEnds(r.value, r.error)
    /\ UNCHANGED <<handled, anomaly, clip_data, clips, results>>

\* create_clip after the refresh: the request re-sent with the new token
CreateClipResend(reply) ==
    LET r == CreateClipResent(reply)
    IN  /\ cpc = "create_resend"
        /\ io' = io \o <<Did("create_clip_resend", attempt, access_token)>>
                    \o (IF r.tag = "refresh"
                        THEN <<Did("got_401", attempt, 0)>> ELSE <<>>)
        /\ IF r.tag = "refresh"
           THEN /\ cpc' = "create_refresh"
                /\ UNCHANGED <<attempt, clip_id, last_error, ended>>
           ELSE AttemptEnds(r.value, r.error)
        /\ UNCHANGED <<handled, anomaly, clip_data, access_token,
                       refresh_token, token_file, clips, results,
                       token_refreshes>>

\* faulty variant: get_clip is called at once, the 15 s are not waited
ProcessingWait_skipped ==
    /\ cpc = "sleep15"
    /\ cpc' = "get_clip"
    /\ UNCHANGED <<handled, anomaly, attempt, clip_id, last_error, clip_data,
                   io, ended, access_token, refresh_token, token_file, clips,
                   results, token_refreshes>>

\* time.sleep(15) once a clip id is held
ProcessingWait ==
    /\ cpc = "sleep15"
    /\ io' = Append(io, Did("sleep", CLIP_PROCESSING_WAIT, 0))
    /\ cpc' = "get_clip"
    /\ UNCHANGED <<handled, anomaly, attempt, clip_id, last_error, clip_data,
                   ended, access_token, refresh_token, token_file, clips,
                   results, token_refreshes>>

\* what process_element does with the value get_clip returned
GotClip(data) ==
    /\ clip_data' = data
    /\ IF data # None
       THEN cpc' = "insert_clip" /\ ended' = ended
       ELSE cpc' = "idle" /\ ended' = "metadata_failed"

\* get_clip up to its first reply
GetClipRequest(reply) ==
    LET r == GetClipFirst(reply)
    IN  /\ cpc = "get_clip"
        /\ PlatformCanReply(reply)
        /\ io' = Append(io, Did("get_clip", 0, access_token))
        /\ IF r.tag = "refresh"
           THEN cpc' = "get_refresh" /\ UNCHANGED <<clip_data, ended>>
           ELSE GotClip(r.value)
        /\ UNCHANGED <<handled, anomaly, attempt, clip_id, last_error,
                       access_token, refresh_token, token_file, clips,
                       results, token_refreshes>>

\* get_clip after a 401: the refresh; its exception ends get_clip with None
GetClipRefresh(reply, rotate, save) ==
    /\ cpc = "get_refresh"
    /\ RefreshAccessToken(reply, rotate, save, 0)
    /\ IF RefreshSucceeds(reply)
       THEN cpc' = "get_resend" /\ UNCHANGED <<clip_data, ended>>
       ELSE GotClip(None)
    /\ UNCHANGED <<handled, anomaly, attempt, clip_id, last_error, clips,
                   results>>

\* get_clip after the refresh: the request re-sent with the new token
GetClipResend(reply) ==
    /\ cpc = "get_resend"
    /\ io' = Append(io, Did("get_clip_resend", 0, access_token))
    /\ GotClip(GetClipResent(reply).value)
    /\ UNCHANGED <<handled, anomaly, attempt, clip_id, last_error,
                   access_token, refresh_token, token_file, clips, results,
                   token_refreshes>>

\* faulty variant: the row is stamped 0 instead of the anomaly's detected_at
ClipResult_undated(a, cid, data) ==
    [broadcaster_id |-> a.broadcaster_id,
     clip_id        |-> cid,
     embed_url      |-> GetOr(data.embed_url, ""),
     thumbnail_url  |-> GetOr(data.thumbnail_url, ""),
     detected_at    |-> 0]

\* ClipResult built from the anomaly and the metadata
ClipResult(a, cid, data) ==
    [broadcaster_id |-> a.broadcaster_id,
     clip_id        |-> cid,
     embed_url      |-> GetOr(data.embed_url, ""),
     thumbnail_url  |-> GetOr(data.thumbnail_url, ""),
     detected_at    |-> a.detected_at]

\* the value process_element yields
Yielded(row) ==
    [broadcaster_id |-> row.broadcaster_id,
     clip_id        |-> row.clip_id,
     embed_url      |-> row.embed_url,
     thumbnail_url  |-> row.thumbnail_url]

\* faulty variant: the exception of the database is not caught by
\* process_element and takes the operator down
InsertClip_uncaught(db_ok) ==
    LET row == ClipResult(anomaly[1], clip_id[1], clip_data[1])
    IN  /\ cpc = "insert_clip"
        /\ io' = Append(io, Did("insert_clip", 0, 0))
        /\ IF db_ok
           THEN /\ clips' = InsertRow(clips, row)
                /\ results' = Append(results, Yielded(row))
                /\ ended' = "complete"
                /\ cpc' = "idle"
           ELSE /\ UNCHANGED <<clips, results, ended>>
                /\ cpc' = "down"
        /\ UNCHANGED <<handled, anomaly, attempt, clip_id, last_error,
                       clip_data, access_token, refresh_token, token_file,
                       token_refreshes>>

\* insert_clip and the yield; an exception of the database (connect or
\* execute) is rolled back and ends process_element in its outer except
InsertClip(db_ok) ==
    LET row == ClipResult(anomaly[1], clip_id[1], clip_data[1])
    IN  /\ cpc = "insert_clip"
        /\ io' = Append(io, Did("insert_clip", 0, 0))
        /\ IF db_ok
           THEN /\ clips' = InsertRow(clips, row)
                /\ results' = Append(results, Yielded(row))
                /\ ended' = "complete"
           ELSE /\ UNCHANGED <<clips, results>>
                /\ ended' = "error"
        /\ cpc' = "idle"
        /\ UNCHANGED <<handled, anomaly, attempt, clip_id, last_error,
                       clip_data, access_token, refresh_token, token_file,
                       token_refreshes>>

\* TwitchAPIClient.__init__ has loaded the credential file; nothing received
InitClip ==
    /\ cpc = "idle"
    /\ handled = 0
    /\ anomaly = None
    /\ attempt = 1
    /\ clip_id = None
    /\ last_error = None
    /\ clip_data = None
    /\ io = <<>>
    /\ ended = "running"
    /\ access_token = 1
    /\ refresh_token = 1
    /\ token_file = [access_token |-> 1, refresh_token |-> 1,
                     scopes |-> InitialScopes]
    /\ clips = {}
    /\ results = <<>>
    /\ token_refreshes = 0

NextClip ==
    \/ (\E ch \in Channels : ClipReceive(ch)) /\ UNCHANGED <<detVars, monVars, storeVars, chatVars, svcVars, jobVars, writerVars, filtVars, evictVars, roomVars, poolVars>>
    \/ (\E reply \in CreateReplies : CreateClipRequest(reply))
       /\ UNCHANGED <<detVars, monVars, storeVars, chatVars, svcVars, jobVars, writerVars, filtVars, evictVars, roomVars, poolVars>>
    \/ (\E reply \in RefreshReplies, rotate \in BOOLEAN, save \in SaveOutcomes :
            CreateClipRefresh(reply, rotate, save))
       /\ UNCHANGED <<detVars, monVars, storeVars, chatVars, svcVars, jobVars, writerVars, filtVars, evictVars, roomVars, poolVars>>
    \/ (\E reply \in CreateReplies : CreateClipResend(reply))
       /\ UNCHANGED <<detVars, monVars, storeVars, chatVars, svcVars, jobVars, writerVars, filtVars, evictVars, roomVars, poolVars>>
    \/ ProcessingWait /\ UNCHANGED <<detVars, monVars, storeVars, chatVars, svcVars, jobVars, writerVars, filtVars, evictVars, roomVars, poolVars>>
    \/ (\E reply \in GetReplies : GetClipRequest(reply))
       /\ UNCHANGED <<detVars, monVars, storeVars, chatVars, svcVars, jobVars, writerVars, filtVars, evictVars, roomVars, poolVars>>
    \/ (\E reply \in RefreshReplies, rotate \in BOOLEAN, save \in SaveOutcomes :
            GetClipRefresh(reply, rotate, save))
       /\ UNCHANGED <<detVars, monVars, storeVars, chatVars, svcVars, jobVars, writerVars, filtVars, evictVars, roomVars, poolVars>>
    \/ (\E reply \in GetReplies : GetClipResend(reply))
       /\ UNCHANGED <<detVars, monVars, storeVars, chatVars, svcVars, jobVars, writerVars, filtVars, evictVars, roomVars, poolVars>>
    \/ (\E db_ok \in BOOLEAN : InsertClip(db_ok)) /\ UNCHANGED <<detVars, monVars, storeVars, chatVars, svcVars, jobVars, writerVars, filtVars, evictVars, roomVars, poolVars>>

(***************************************************************************)
(* The job of main(): one subtask of the chain detector -> ClipCreator     *)
(***************************************************************************)
\* main() connects AnomalyDetector to ClipCreator by process() alone, with
\* no exchange between them: a subtask hands each anomaly to
\* ClipCreator.process_element by a call, in the thread that runs
\* AnomalyDetector.process_element for the keys of the subtask, and takes
\* its next record when that call has returned

\* a record of the subtask goes through the chain up to the first blocking
\* call of ClipCreator.process_element
JobRecord(ch, text, ts) ==
    /\ cpc = "idle"
    /\ offset < MaxJobRecords
    /\ KafkaRecord(ch, text, ts)
    /\ IF Len(anomalies') > Len(anomalies)
       THEN ClipReceive(ch)
       ELSE UNCHANGED clipVars

\* SIGTERM or a cancellation reaches the process; nothing in the job reads it
ShutdownSignal ==
    /\ ~ shutdown
    /\ shutdown' = TRUE

InitJob == shutdown = FALSE

NextJob ==
    \/ (\E ch \in Channels : JobRecord(ch, <<"a">>, now * 1000 + 999))
       /\ UNCHANGED <<monVars, storeVars, chatVars, svcVars, jobVars, writerVars, filtVars, evictVars, roomVars, poolVars>>
    \/ (\E reply \in CreateReplies : CreateClipRequest(reply))
       /\ UNCHANGED <<detVars, monVars, storeVars, chatVars, svcVars, jobVars, writerVars, filtVars, evictVars, roomVars, poolVars>>
    \/ (\E reply \in RefreshReplies, rotate \in BOOLEAN, save \in SaveOutcomes :
            CreateClipRefresh(reply, rotate, save))
       /\ UNCHANGED <<detVars, monVars, storeVars, chatVars, svcVars, jobVars, writerVars, filtVars, evictVars, roomVars, poolVars>>
    \/ (\E reply \in CreateReplies : CreateClipResend(reply))
       /\ UNCHANGED <<detVars, monVars, storeVars, chatVars, svcVars, jobVars, writerVars, filtVars, evictVars, roomVars, poolVars>>
    \/ ProcessingWait
       /\ UNCHANGED <<detVars, monVars, storeVars, chatVars, svcVars, jobVars, writerVars, filtVars, evictVars, roomVars, poolVars>>
    \/ (\E reply \in GetReplies : GetClipRequest(reply))
       /\ UNCHANGED <<detVars, monVars, storeVars, chatVars, svcVars, jobVars, writerVars, filtVars, evictVars, roomVars, poolVars>>
    \/ (\E reply \in RefreshReplies, rotate \in BOOLEAN, save \in SaveOutcomes :
            GetClipRefresh(reply, rotate, save))
       /\ UNCHANGED <<detVars, monVars, storeVars, chatVars, svcVars, jobVars, writerVars, filtVars, evictVars, roomVars, poolVars>>
    \/ (\E reply \in GetReplies : GetClipResend(reply))
       /\ UNCHANGED <<detVars, monVars, storeVars, chatVars, svcVars, jobVars, writerVars, filtVars, evictVars, roomVars, poolVars>>
    \/ (\E db_ok \in BOOLEAN : InsertClip(db_ok))
       /\ UNCHANGED <<detVars, monVars, storeVars, chatVars, svcVars, jobVars, writerVars, filtVars, evictVars, roomVars, poolVars>>
    \/ ShutdownSignal
       /\ UNCHANGED <<detVars, monVars, clipVars, storeVars, chatVars, svcVars, writerVars, filtVars, evictVars, roomVars, poolVars>>

(***************************************************************************)
(* Chat pump: StreamMonitoringService._on_chat_message                     *)
(***************************************************************************)
\* msg.room.name of the messages delivered: the mover's room as the chat
\* server names it and in capitals, a filler's room, a room never listed
RoomNames == {"x", "X", "f1", "zz"}

\* str.lower() on these names
Lower(name) == IF name = "X" THEN "x" ELSE name

\* msg.text of the messages delivered
ChatTexts == {<<"a">>, <<"!", "a">>}

DecimalDigits == <<"0", "1", "2", "3", "4", "5", "6", "7", "8", "9">>

RECURSIVE Decimal(_)
\* str(n) for n >= 0, as a sequence of characters
Decimal(n) ==
    IF n < 10 THEN <<DecimalDigits[n + 1]>>
    ELSE Append(Decimal(n \div 10), DecimalDigits[(n % 10) + 1])

\* faulty variant: the key is the same for every channel
PartitionKey_shared(broadcaster_id) == <<"0">>

\* key=str(broadcaster_id).encode("utf-8")
PartitionKey(broadcaster_id) == Decimal(broadcaster_id)

\* self.broadcaster_ids.get(broadcaster_login)
IdOf(ids, login) == IF login \in DOMAIN ids THEN <<ids[login]>> ELSE None

\* message_payload, the fields read downstream; message_id stands for the
\* fresh uuid4
MessagePayload(broadcaster_id, text, n) ==
    [broadcaster_id |-> broadcaster_id, message_id |-> n, text |-> text]

\* one kafka_producer.produce call; accepted is FALSE when it raised
Produce(topic, key, value, accepted) ==
    [topic |-> topic, key |-> key, value |-> value, accepted |-> accepted]

\* _on_chat_message with _publish_chat_message: the room is resolved, a
\* message of an unknown room (or of id 0) returns at once, any other is
\* produced once; an exception of produce is logged and the message is lost
OnChatMessage(room_name, text, accepted) ==
    LET broadcaster_login == Lower(room_name)
        broadcaster_id    == IdOf(broadcaster_ids, broadcaster_login)
    IN  /\ chat_msgs < MaxMessages
        /\ chat_msgs' = chat_msgs + 1
        /\ chat_in' = <<[room_name |-> room_name, text |-> text]>>
        /\ produced' =
              IF broadcaster_id = None \/ broadcaster_id = <<0>>
              THEN produced
              ELSE Append(produced,
                          Produce("chat-messages",
                                  PartitionKey(broadcaster_id[1]),
                                  MessagePayload(broadcaster_id[1], text,
                                                 chat_msgs'),
                                  accepted))

InitChat ==
    /\ chat_msgs = 0
    /\ chat_in = None
    /\ produced = <<>>

\* the monitor polling as in the hysteresis scenario while chat messages
\* are delivered to it between its steps
NextChat ==
    \/ HysteresisPoll /\ UNCHANGED <<detVars, clipVars, storeVars, chatVars, svcVars, jobVars, writerVars, filtVars, evictVars, roomVars, poolVars>>
    \/ ChatInit(TRUE) /\ UNCHANGED <<detVars, clipVars, storeVars, chatVars, svcVars, jobVars, writerVars, filtVars, evictVars, roomVars, poolVars>>
    \/ (\E c \in Logins : JoinRoom(c, TRUE))
       /\ UNCHANGED <<detVars, clipVars, storeVars, chatVars, svcVars, jobVars, writerVars, filtVars, evictVars, roomVars, poolVars>>
    \/ (\E c \in Logins : LeaveRoom(c, TRUE))
       /\ UNCHANGED <<detVars, clipVars, storeVars, chatVars, svcVars, jobVars, writerVars, filtVars, evictVars, roomVars, poolVars>>
    \/ (\E room_name \in RoomNames, text \in ChatTexts, accepted \in BOOLEAN :
            OnChatMessage(room_name, text, accepted))
       /\ UNCHANGED <<detVars, monVars, clipVars, storeVars, svcVars, jobVars, writerVars, filtVars, evictVars, roomVars, poolVars>>

(***************************************************************************)
(* The chat connection while _manage_chat_connections awaits.  join_room   *)
(* and leave_room are awaited: between the request reaching the platform   *)
(* and the call returning, the event loop runs the MESSAGE callbacks of    *)
(* the lines the connection receives.                                      *)
(***************************************************************************)
\* the JOIN of the awaited join_room has reached the platform: the
\* connection is in the room and receives its lines
JoinReachesServer(channel) ==
    /\ mpc = "joining"
    /\ channel \in channels_to_join
    /\ channel \notin irc_rooms
    /\ irc_rooms' = irc_rooms \cup {channel}

\* await self.chat.join_room(channel) returns; joined_channels.add(channel)
JoinReturns(channel) ==
    /\ channel \in irc_rooms
    /\ JoinRoom(channel, TRUE)
    /\ irc_rooms' = irc_rooms

\* await self.chat.leave_room(channel) returns: the connection has left
\* the room; joined_channels.discard(channel)
LeaveReturns(channel) ==
    /\ LeaveRoom(channel, TRUE)
    /\ irc_rooms' = irc_rooms \ {channel}

\* ChatEvent.MESSAGE for a line of a room the connection is in
RoomMessage(room_name, text, accepted) ==
    /\ Lower(room_name) \in irc_rooms
    /\ OnChatMessage(room_name, text, accepted)
    /\ irc_rooms' = irc_rooms

InitRooms == irc_rooms = {}

\* the polls of the hysteresis scenario, every call succeeding, and the
\* lines of the rooms the connection is in
NextRooms ==
    \/ HysteresisPoll
       /\ UNCHANGED <<detVars, clipVars, storeVars, chatVars, svcVars, jobVars,
                      writerVars, filtVars, evictVars, roomVars,
                      poolVars>>
    \/ ChatInit(TRUE)
       /\ UNCHANGED <<detVars, clipVars, storeVars, chatVars, svcVars, jobVars,
                      writerVars, filtVars, evictVars, roomVars,
                      poolVars>>
    \/ (\E c \in Logins : JoinReachesServer(c))
       /\ UNCHANGED <<detVars, monVars, clipVars, storeVars, chatVars, svcVars,
                      jobVars, writerVars, filtVars, evictVars,
                      poolVars>>
    \/ (\E c \in Logins : JoinReturns(c))
       /\ UNCHANGED <<detVars, clipVars, storeVars, chatVars, svcVars, jobVars,
                      writerVars, filtVars, evictVars,
                      poolVars>>
    \/ (\E c \in Logins : LeaveReturns(c))
       /\ UNCHANGED <<detVars, clipVars, storeVars, chatVars, svcVars, jobVars,
                      writerVars, filtVars, evictVars,
                      poolVars>>
    \/ (\E room_name \in RoomNames, text \in ChatTexts, accepted \in BOOLEAN :
            RoomMessage(room_name, text, accepted))
       /\ UNCHANGED <<detVars, monVars, clipVars, storeVars, svcVars, jobVars,
                      writerVars, filtVars, evictVars,
                      poolVars>>

(***************************************************************************)
(* Connection pools: _upsert_streamer of the monitor, and get_db /         *)
(* close_db of the read API (api_frontend_service.py)                      *)
(***************************************************************************)
MaxUpserts == 3

\* requests the API is given; one more than the pool has connections
MaxRequests == 11

\* ThreadedConnectionPool(minconn=2, maxconn=10, ...)
maxconn == 10

\* conn = self.db_pool.getconn(): a connection is handed out, or getconn
\* raises with conn still None: the except clause logs, the finally clause
\* has nothing to return
UpsertGetconn(ok) ==
    /\ upc = "idle"
    /\ upserts < MaxUpserts
    /\ IF ok /\ db_used < maxconn
       THEN /\ db_used' = db_used + 1
            /\ upc' = "held"
            /\ UNCHANGED <<upserts, upsert_result>>
       ELSE /\ upserts' = upserts + 1
            /\ upsert_result' = "no_conn"
            /\ UNCHANGED <<db_used, upc>>
    /\ UNCHANGED <<api_used, reqs>>

\* cur.execute and conn.commit() go through; finally: putconn(conn)
UpsertCommits ==
    /\ upc = "held"
    /\ db_used' = db_used - 1
    /\ upc' = "idle"
    /\ upserts' = upserts + 1
    /\ upsert_result' = "committed"
    /\ UNCHANGED <<api_used, reqs>>

\* cur.execute or conn.commit() raises; except: conn.rollback(), which
\* returns or raises itself; finally: putconn(conn) in both cases
UpsertFails(rollback_ok) ==
    /\ upc = "held"
    /\ db_used' = db_used - 1
    /\ upc' = "idle"
    /\ upserts' = upserts + 1
    /\ upsert_result' = IF rollback_ok THEN "rolled_back" ELSE "raised"
    /\ UNCHANGED <<api_used, reqs>>

\* the positions of a request: "new" accepted, "held" g.db set, "nodb" the
\* view ran without a connection, "refused" getconn raised, "done" after
\* the teardown
Positions == {"new", "held", "nodb", "refused", "done"}

Move(counts, from, to) ==
    [counts EXCEPT ![from] = @ - 1, ![to] = @ + 1]

\* a view that does not touch the database (index, static files, a clip
\* query turned down with 400) runs to its response
ViewWithoutDb ==
    /\ reqs["new"] > 0
    /\ reqs' = Move(reqs, "new", "nodb")
    /\ UNCHANGED <<db_used, upc, upserts, upsert_result, api_used>>

\* get_db() in health or get_clips: g.db = pool.getconn(); an exhausted
\* pool (or the database refusing) raises, the view answers 500 and g has
\* no db
GetDb(ok) ==
    /\ reqs["new"] > 0
    /\ IF ok /\ api_used < maxconn
       THEN /\ api_used' = api_used + 1
            /\ reqs' = Move(reqs, "new", "held")
       ELSE /\ api_used' = api_used
            /\ reqs' = Move(reqs, "new", "refused")
    /\ UNCHANGED <<db_used, upc, upserts, upsert_result>>

\* faulty variant: the connection goes back only when the request ended
\* without an error
CloseDb_on_success(from, error) ==
    /\ from \in {"held", "nodb", "refused"}
    /\ reqs[from] > 0
    /\ reqs' = Move(reqs, from, "done")
    /\ api_used' = IF from = "held" /\ ~ error
                   THEN api_used - 1 ELSE api_used
    /\ UNCHANGED <<db_used, upc, upserts, upsert_result>>

\* close_db(error), the teardown of every request, whether its view
\* returned or raised: db = g.pop("db", None); putconn(db) if there is one
CloseDb(from, error) ==
    /\ from \in {"held", "nodb", "refused"}
    /\ reqs[from] > 0
    /\ reqs' = Move(reqs, from, "done")
    /\ api_used' = IF from = "held" THEN api_used - 1 ELSE api_used
    /\ UNCHANGED <<db_used, upc, upserts, upsert_result>>

InitPools ==
    /\ db_used = 0
    /\ upc = "idle"
    /\ upserts = 0
    /\ upsert_result = "none"
    /\ api_used = 0
    /\ reqs = [p \in Positions |-> IF p = "new" THEN MaxRequests ELSE 0]

NextPools ==
    \/ (\E ok \in BOOLEAN : UpsertGetconn(ok))
       /\ UNCHANGED <<detVars, monVars, clipVars, storeVars, chatVars, svcVars,
                      jobVars, writerVars, filtVars, evictVars, roomVars>>
    \/ UpsertCommits
       /\ UNCHANGED <<detVars, monVars, clipVars, storeVars, chatVars, svcVars,
                      jobVars, writerVars, filtVars, evictVars, roomVars>>
    \/ (\E rollback_ok \in BOOLEAN : UpsertFails(rollback_ok))
       /\ UNCHANGED <<detVars, monVars, clipVars, storeVars, chatVars, svcVars,
                      jobVars, writerVars, filtVars, evictVars, roomVars>>
    \/ ViewWithoutDb
       /\ UNCHANGED <<detVars, monVars, clipVars, storeVars, chatVars, svcVars,
                      jobVars, writerVars, filtVars, evictVars, roomVars>>
    \/ (\E ok \in BOOLEAN : GetDb(ok))
       /\ UNCHANGED <<detVars, monVars, clipVars, storeVars, chatVars, svcVars,
                      jobVars, writerVars, filtVars, evictVars, roomVars>>
    \/ (\E from \in Positions, error \in BOOLEAN : CloseDb(from, error))
       /\ UNCHANGED <<detVars, monVars, clipVars, storeVars, chatVars, svcVars,
                      jobVars, writerVars, filtVars, evictVars, roomVars>>

(***************************************************************************)
(* TokenManager (token_manager.py)                                         *)
(***************************************************************************)
\* the scopes seed_twitch_tokens.py records: REQUIRED_SCOPES
REQUIRED_SCOPES == <<"chat:read", "clips:edit">>

\* the JSON object of a credential file: a key that is absent is None, the
\* value of a key that is present is <<v>>
TokenData(access, refresh, scopes) ==
    [kind |-> "json", access_token |-> access, refresh_token |-> refresh,
     scopes |-> scopes]

\* no file at the path
NoFile ==
    [kind |-> "absent", access_token |-> None, refresh_token |-> None,
     scopes |-> None]

\* a file that json.load cannot parse: empty, cut short, or other text
NotJson ==
    [kind |-> "not_json", access_token |-> None, refresh_token |-> None,
     scopes |-> None]

\* the files the services may find when they start: the record of the
\* seeding tool, the same without "scopes", with an empty or an absent
\* token, no file, and a file that is not JSON
SeedFiles ==
    {TokenData(<<"a0">>, <<"r0">>, <<REQUIRED_SCOPES>>),
     TokenData(<<"a0">>, <<"r0">>, None),
     TokenData(<<"">>, <<"r0">>, <<REQUIRED_SCOPES>>),
     TokenData(<<"a0">>, None, <<REQUIRED_SCOPES>>),
     NoFile, NotJson}

\* the pairs a refresh hands to save_tokens
SavePairs == {<<"a1", "r1">>, <<"a2", "r2">>}

\* Python's "not x" for an optional string
Falsy(opt) == opt = None \/ opt[1] = ""

\* TokenManager.__init__
TokenManagerNew ==
    [access_token |-> None, refresh_token |-> None, scopes |-> <<>>]

\* load_tokens has not been called by this process
NotCalled == [raised |-> "not_called", value |-> None]

\* faulty variant: only an absent token is refused, an empty one is returned
load_tokens_raises_unless_absent(file) ==
    IF file.kind = "absent" THEN "FileNotFoundError"
    ELSE IF file.kind = "not_json" THEN "JSONDecodeError"
    ELSE IF file.access_token = None \/ file.refresh_token = None
         THEN "ValueError"
    ELSE "none"

\* the exception load_tokens raises on this file, "none" when it returns
load_tokens_raises(file) ==
    IF file.kind = "absent" THEN "FileNotFoundError"
    ELSE IF file.kind = "not_json" THEN "JSONDecodeError"
    ELSE IF Falsy(file.access_token) \/ Falsy(file.refresh_token)
         THEN "ValueError"
    ELSE "none"

\* the instance fields after load_tokens: assigned from the parsed file
\* before the tokens are checked, "scopes" defaulting to []
load_tokens_fields(file, self) ==
    IF file.kind = "json"
    THEN [access_token |-> file.access_token,
          refresh_token |-> file.refresh_token,
          scopes |-> GetOr(file.scopes, <<>>)]
    ELSE self

\* TokenManager.load_tokens
LoadTokens ==
    LET raised == load_tokens_raises(store_file)
        self   == load_tokens_fields(store_file, manager)
    IN  /\ spc = "idle"
        /\ store_calls < MaxStoreCalls
        /\ store_calls' = store_calls + 1
        /\ manager' = self
        /\ loaded' = IF raised = "none"
                     THEN [raised |-> "none",
                           value |-> <<self.access_token[1],
                                       self.refresh_token[1], self.scopes>>]
                     ELSE [raised |-> raised, value |-> None]
        /\ UNCHANGED <<store_file, spc, token_data, seeded, last_saved>>

\* TokenManager.save_tokens up to open(self.token_file, "w"): the fields are
\* set, token_data is built from self._scopes, and the open empties the file
\* (or fails and raises, the file being as it was)
SaveTokensOpen(access, refresh, opened) ==
    /\ spc = "idle"
    /\ store_calls < MaxStoreCalls
    /\ store_calls' = store_calls + 1
    /\ manager' = [manager EXCEPT !.access_token = <<access>>,
                                  !.refresh_token = <<refresh>>]
    /\ IF opened
       THEN /\ token_data' = <<TokenData(<<access>>, <<refresh>>,
                                         <<manager.scopes>>)>>
            /\ store_file' = NotJson
            /\ spc' = "dump"
            /\ last_saved' = None
       ELSE UNCHANGED <<token_data, store_file, spc, last_saved>>
    /\ UNCHANGED <<loaded, seeded>>

\* save_tokens from json.dump to the end of the "with" block
SaveTokensDump ==
    /\ spc = "dump"
    /\ store_file' = token_data[1]
    /\ last_saved' = <<token_data[1].access_token[1],
                       token_data[1].refresh_token[1]>>
    /\ token_data' = None
    /\ spc' = "idle"
    /\ UNCHANGED <<manager, loaded, store_calls, seeded>>

\* the process ends, wherever it stands, and is started again:
\* get_token_manager builds a new TokenManager; the file is as it was left
ProcessRestart ==
    /\ manager' = TokenManagerNew
    /\ loaded' = NotCalled
    /\ token_data' = None
    /\ spc' = "idle"
    /\ UNCHANGED <<store_file, store_calls, seeded, last_saved>>

InitStoreAt(file) ==
    /\ store_file = file
    /\ seeded = file
    /\ manager = TokenManagerNew
    /\ loaded = NotCalled
    /\ spc = "idle"
    /\ token_data = None
    /\ store_calls = 0
    /\ last_saved = None

\* the services start on the file of the seeding tool
InitStore == InitStoreAt(TokenData(<<"a0">>, <<"r0">>, <<REQUIRED_SCOPES>>))

\* the credential store starts on any of SeedFiles
InitStoreAny == \E file \in SeedFiles : InitStoreAt(file)

NextStore ==
    \/ LoadTokens /\ UNCHANGED <<detVars, monVars, clipVars, chatVars, svcVars, jobVars, writerVars, filtVars, evictVars, roomVars, poolVars>>
    \/ (\E pair \in SavePairs, opened \in BOOLEAN :
            SaveTokensOpen(pair[1], pair[2], opened))
       /\ UNCHANGED <<detVars, monVars, clipVars, chatVars, svcVars, jobVars, writerVars, filtVars, evictVars, roomVars, poolVars>>
    \/ SaveTokensDump /\ UNCHANGED <<detVars, monVars, clipVars, chatVars, svcVars, jobVars, writerVars, filtVars, evictVars, roomVars, poolVars>>
    \/ ProcessRestart /\ UNCHANGED <<detVars, monVars, clipVars, chatVars, svcVars, jobVars, writerVars, filtVars, evictVars, roomVars, poolVars>>

(***************************************************************************)
(* The monitor process: main, initialize, start, stop                      *)
(***************************************************************************)
\* the external handles in the order initialize() makes them
InitOrder ==
    <<"twitch", "kafka_producer", "db_pool", "redis_client", "scheduler">>

\* the constructor that raises in initialize(): none, or that of one handle
InitFailures == {None} \cup {<<h>> : h \in Range(InitOrder)}

\* the handles made before "failing" raised; load_tokens is called once
\* "twitch" is made, and any exception of it but FileNotFoundError leaves
\* initialize() there
HandlesMade(failing, raised) ==
    LET k == IF failing = None THEN Len(InitOrder) + 1
             ELSE CHOOSE i \in DOMAIN InitOrder : InitOrder[i] = failing[1]
        fatal == raised \notin {"none", "FileNotFoundError"}
    IN  IF fatal /\ k > 1 THEN <<"twitch">>
        ELSE SubSeq(InitOrder, 1, k - 1)

\* main() up to the loop of start(): initialize() makes the handles in
\* order; a missing token file is logged and replaced by app-only
\* authentication; any other exception reaches the except clause of main()
Initialize(failing) ==
    LET raised == load_tokens_raises(store_file)
        made   == HandlesMade(failing, raised)
    IN  /\ service = "created"
        /\ handles' = made
        /\ user_auth' = (made # <<>> /\ raised = "none")
        /\ service' = IF Len(made) = Len(InitOrder) THEN "running"
                      ELSE "failed"
        /\ UNCHANGED <<stop_pc, stop_log, flushed, exit_code>>

\* the synchronous end of stop(): flush(timeout=10), closeall(), close()
StopTail(made) ==
    (IF "kafka_producer" \in Range(made) THEN <<"kafka_flush">> ELSE <<>>)
    \o (IF "db_pool" \in Range(made) THEN <<"db_pool">> ELSE <<>>)
    \o (IF "redis_client" \in Range(made) THEN <<"redis_client">> ELSE <<>>)

\* faulty variant: the producer is not flushed
StopTail_unflushed(made) ==
    (IF "db_pool" \in Range(made) THEN <<"db_pool">> ELSE <<>>)
    \o (IF "redis_client" \in Range(made) THEN <<"redis_client">> ELSE <<>>)

\* stop() from where twitch.close() has returned
StopFinishes(log) ==
    /\ stop_log' = log \o StopTail(handles)
    /\ flushed' = <<Len(lifecycle), Len(produced)>>
    /\ stop_pc' = "done"

\* stop() up to its first await, started by the signal handler's task or
\* by the except clause of main(): running = False, scheduler.shutdown,
\* which cancels the tick in progress, then the call of chat.stop()
StopBegins ==
    LET log == IF "scheduler" \in Range(handles) THEN <<"scheduler">>
               ELSE <<>>
    IN  /\ service \in {"running", "failed"}
        /\ stop_pc = "none"
        /\ mpc' = "idle"
        /\ channels_to_join' = {}
        /\ channels_to_leave' = {}
        /\ UNCHANGED <<polls, room_failures, joined_channels,
                       broadcaster_ids, chat, redis_ttl, lifecycle,
                       poll_errors, streams, top_join_streamers,
                       top_leave_streamers, listed, joined_prev, room_calls>>
        /\ UNCHANGED <<service, handles, user_auth, exit_code>>
        /\ IF chat # None
           THEN /\ stop_pc' = "chat_stop"
                /\ stop_log' = log
                /\ flushed' = flushed
           ELSE IF "twitch" \in Range(handles)
           THEN /\ stop_pc' = "twitch_close"
                /\ stop_log' = log
                /\ flushed' = flushed
           ELSE StopFinishes(log)

\* await self.chat.stop() returns, or raises and is logged
ChatStops ==
    /\ stop_pc = "chat_stop"
    /\ stop_pc' = "twitch_close"
    /\ stop_log' = Append(stop_log, "chat")
    /\ UNCHANGED <<service, handles, user_auth, flushed, exit_code>>

\* await self.twitch.close() returns and stop() runs to its end
TwitchCloses ==
    /\ stop_pc = "twitch_close"
    /\ StopFinishes(Append(stop_log, "twitch"))
    /\ UNCHANGED <<service, handles, user_auth, exit_code>>

\* after a signal: the loop of start() sees running = False, main() returns
\* and asyncio.run cancels the task of stop() where it awaits
MainReturns ==
    /\ service = "running"
    /\ stop_pc # "none"
    /\ service' = "exited"
    /\ exit_code' = <<0>>
    /\ stop_pc' = IF stop_pc = "done" THEN "done" ELSE "cancelled"
    /\ UNCHANGED <<handles, user_auth, stop_log, flushed>>

\* the except clause of main(): after await service.stop(), sys.exit(1)
MainExits ==
    /\ service = "failed"
    /\ stop_pc = "done"
    /\ service' = "exited"
    /\ exit_code' = <<1>>
    /\ UNCHANGED <<handles, user_auth, stop_pc, stop_log, flushed>>

\* StreamMonitoringService(), main() not yet in initialize()
InitService ==
    /\ service = "created"
    /\ handles = <<>>
    /\ user_auth = FALSE
    /\ stop_pc = "none"
    /\ stop_log = <<>>
    /\ flushed = None
    /\ exit_code = None

\* the scheduler fires ticks while it runs; Chat() needs the user
\* authentication; chat messages arrive while the chat session is open
NextService ==
    \/ (\E failing \in InitFailures : Initialize(failing))
       /\ UNCHANGED <<detVars, monVars, clipVars, storeVars, chatVars, jobVars, writerVars, filtVars, evictVars, roomVars, poolVars>>
    \/ /\ service = "running" /\ stop_pc = "none"
       /\ HysteresisPoll
       /\ UNCHANGED <<detVars, clipVars, storeVars, chatVars, svcVars, jobVars, writerVars, filtVars, evictVars, roomVars, poolVars>>
    \/ ChatInit(user_auth)
       /\ UNCHANGED <<detVars, clipVars, storeVars, chatVars, svcVars, jobVars, writerVars, filtVars, evictVars, roomVars, poolVars>>
    \/ (\E c \in Logins : JoinRoom(c, TRUE))
       /\ UNCHANGED <<detVars, clipVars, storeVars, chatVars, svcVars, jobVars, writerVars, filtVars, evictVars, roomVars, poolVars>>
    \/ (\E c \in Logins : LeaveRoom(c, TRUE))
       /\ UNCHANGED <<detVars, clipVars, storeVars, chatVars, svcVars, jobVars, writerVars, filtVars, evictVars, roomVars, poolVars>>
    \/ /\ chat # None /\ stop_pc \in {"none", "chat_stop"}
       /\ \E room_name \in RoomNames, text \in ChatTexts :
             OnChatMessage(room_name, text, TRUE)
       /\ UNCHANGED <<detVars, monVars, clipVars, storeVars, svcVars, jobVars, writerVars, filtVars, evictVars, roomVars, poolVars>>
    \/ StopBegins /\ UNCHANGED <<detVars, clipVars, storeVars, chatVars, jobVars, writerVars, filtVars, evictVars, roomVars, poolVars>>
    \/ ChatStops /\ UNCHANGED <<detVars, monVars, clipVars, storeVars, chatVars, jobVars, writerVars, filtVars, evictVars, roomVars, poolVars>>
    \/ TwitchCloses
       /\ UNCHANGED <<detVars, monVars, clipVars, storeVars, chatVars, jobVars, writerVars, filtVars, evictVars, roomVars, poolVars>>
    \/ MainReturns
       /\ UNCHANGED <<detVars, monVars, clipVars, storeVars, chatVars, jobVars, writerVars, filtVars, evictVars, roomVars, poolVars>>
    \/ MainExits /\ UNCHANGED <<detVars, monVars, clipVars, storeVars, chatVars, jobVars, writerVars, filtVars, evictVars, roomVars, poolVars>>

(***************************************************************************)
(* The processes that write the credential file                            *)
(***************************************************************************)
\* the monitor, which saves through TokenManager.save_tokens, and two
\* subtasks of the job, each with its own TwitchAPIClient, which save
\* through TwitchAPIClient._save_tokens; all open the path TWITCH_TOKEN_FILE
Writers == {"monitor", "clip_a", "clip_b"}

SavesThrough(w) == IF w = "monitor" THEN "TokenManager" ELSE "TwitchAPIClient"

\* the file: a complete JSON record holding the n-th pair the platform
\* issued (0: the pair of the seeding tool), or a file opened with "w" and
\* not yet written
SharedFile(kind, pair, by) == [kind |-> kind, pair |-> pair, by |-> by]

\* a refresh succeeds: the platform issues its next pair to this writer,
\* which then saves it (the refresh callback of the monitor, line 184 of
\* _refresh_access_token in the job)
WriterRefresh(w) ==
    /\ wpc[w] = "idle"
    /\ issued < MaxPairs
    /\ issued' = issued + 1
    /\ wpair' = [wpair EXCEPT ![w] = issued + 1]
    /\ wpc' = [wpc EXCEPT ![w] = "save"]
    /\ UNCHANGED <<shared_file, wdata>>

\* TwitchAPIClient._save_tokens: open(token_file, "r") and json.load; when
\* the file cannot be parsed the exception is logged and nothing is written
ClientRead(w) ==
    /\ SavesThrough(w) = "TwitchAPIClient"
    /\ wpc[w] = "save"
    /\ IF shared_file.kind = "json"
       THEN /\ wdata' = [wdata EXCEPT ![w] = <<shared_file>>]
            /\ wpc' = [wpc EXCEPT ![w] = "read"]
       ELSE /\ wdata' = wdata
            /\ wpc' = [wpc EXCEPT ![w] = "idle"]
    /\ UNCHANGED <<shared_file, wpair, issued>>

\* open(token_file, "w") of either save: the file is cut to nothing
WriterOpen(w) ==
    /\ wpc[w] = IF SavesThrough(w) = "TokenManager" THEN "save" ELSE "read"
    /\ shared_file' = SharedFile("cut", 0, SavesThrough(w))
    /\ wpc' = [wpc EXCEPT ![w] = "opened"]
    /\ UNCHANGED <<wpair, wdata, issued>>

\* json.dump and the close of the file, of either save
WriterDump(w) ==
    /\ wpc[w] = "opened"
    /\ shared_file' = SharedFile("json", wpair[w], SavesThrough(w))
    /\ wpc' = [wpc EXCEPT ![w] = "idle"]
    /\ wdata' = [wdata EXCEPT ![w] = None]
    /\ UNCHANGED <<wpair, issued>>

\* the file of the seeding tool, loaded by every writer
InitWriters ==
    /\ shared_file = SharedFile("json", 0, "seed")
    /\ wpc = [w \in Writers |-> "idle"]
    /\ wpair = [w \in Writers |-> 0]
    /\ wdata = [w \in Writers |-> None]
    /\ issued = 0

NextWriters ==
    \/ (\E w \in Writers : WriterRefresh(w))
       /\ UNCHANGED <<detVars, monVars, clipVars, storeVars, chatVars, svcVars,
                      jobVars,
                      filtVars,
                      evictVars,
                      roomVars,
                      poolVars>>
    \/ (\E w \in Writers : ClientRead(w))
       /\ UNCHANGED <<detVars, monVars, clipVars, storeVars, chatVars, svcVars,
                      jobVars,
                      filtVars,
                      evictVars,
                      roomVars,
                      poolVars>>
    \/ (\E w \in Writers : WriterOpen(w))
       /\ UNCHANGED <<detVars, monVars, clipVars, storeVars, chatVars, svcVars,
                      jobVars,
                      filtVars,
                      evictVars,
                      roomVars,
                      poolVars>>
    \/ (\E w \in Writers : WriterDump(w))
       /\ UNCHANGED <<detVars, monVars, clipVars, storeVars, chatVars, svcVars,
                      jobVars,
                      filtVars,
                      evictVars,
                      roomVars,
                      poolVars>>

vars ==
    <<detVars, monVars, clipVars, storeVars, chatVars, svcVars, jobVars,
      writerVars,
      filtVars,
      evictVars,
      roomVars,
      poolVars>>

(***************************************************************************)
(* Specifications                                                          *)
(***************************************************************************)
\* the services started, the detector holding the keyed state of a history
InitWarm == InitDetector /\ InitMonitor /\ InitClip /\ InitStore /\ InitChat
    /\ InitService /\ InitJob /\ InitWriters /\ InitFilt /\ InitEvict /\ InitRooms
    /\ InitPools

\* the services started with no state retained
InitCold ==
    InitDetectorCold /\ InitMonitor /\ InitClip /\ InitStore /\ InitChat
    /\ InitService /\ InitJob /\ InitWriters /\ InitFilt /\ InitEvict /\ InitRooms
    /\ InitPools

\* the detector pipeline on channels with an accumulated history, the
\* detector's clock advancing between records
SpecDetector == InitWarm /\ [][NextDetector]_vars

\* the same pipeline from a cold start, fed with every chat text of Texts
SpecFilter == InitCold /\ [][NextFilter]_vars

\* the fleet monitor: scheduler ticks and the awaits inside them
SpecMonitor == InitCold /\ [][NextMonitor]_vars

\* the fleet monitor with every call of every tick succeeding
SpecConverge == InitCold /\ [][NextConverge]_vars

\* the fleet monitor in the hysteresis scenario, nothing failing
SpecHysteresis == InitCold /\ [][NextHysteresis]_vars

\* one subtask of the job, its keyed state warm or empty
SpecJob == InitWarm /\ [][NextJob]_vars

\* the writers of the credential file, refreshing and saving side by side
SpecWriters == InitCold /\ [][NextWriters]_vars

\* the other components as started, the filter before any stream in two
\* parts of at most MaxLen values
InitStreams ==
    InitDetectorCold /\ InitMonitor /\ InitClip /\ InitStore /\ InitChat
    /\ InitService /\ InitJob /\ InitWriters /\ InitFiltAny /\ InitEvict /\ InitRooms
    /\ InitPools

\* one CommandFilter instance fed with a stream
SpecStream == InitStreams /\ [][NextStream]_vars

\* the chat pump beside the polls of the hysteresis scenario
SpecChat == InitCold /\ [][NextChat]_vars

\* chat callbacks interleaved with the awaits of the poll ticks
SpecRooms == InitCold /\ [][NextRooms]_vars

\* catalog upserts of the monitor and requests of the read API
SpecPools == InitCold /\ [][NextPools]_vars

\* the clip creator fed with anomalies, its platform replies chosen freely
SpecClip == InitCold /\ [][NextClip]_vars

\* process_element goes on once called: every step it waits for comes to an
\* end, a request by its reply or by timeout = 30, a sleep by its duration,
\* the insert by the database's answer or error
ClipReturns ==
    /\ \/ \E reply \in CreateReplies : CreateClipRequest(reply)
       \/ \E reply \in RefreshReplies, rotate \in BOOLEAN,
             save \in SaveOutcomes : CreateClipRefresh(reply, rotate, save)
       \/ \E reply \in CreateReplies : CreateClipResend(reply)
       \/ ProcessingWait
       \/ \E reply \in GetReplies : GetClipRequest(reply)
       \/ \E reply \in RefreshReplies, rotate \in BOOLEAN,
             save \in SaveOutcomes : GetClipRefresh(reply, rotate, save)
       \/ \E reply \in GetReplies : GetClipResend(reply)
       \/ \E db_ok \in BOOLEAN : InsertClip(db_ok)
    /\ UNCHANGED <<detVars, monVars, storeVars, chatVars, svcVars, jobVars, writerVars, filtVars, evictVars, roomVars, poolVars>>

\* the clip creator with the calls it makes returning; anomalies arrive or
\* do not
SpecClipLive == InitCold /\ [][NextClip]_vars /\ WF_vars(ClipReturns)

\* the detector pipeline from a cold start, fed with the spike scenario
\* the steady scenario from a full baseline window with unequal counts
InitSteady ==
    /\ InitWarm
    /\ message_counts = [c \in Channels |-> History(BASELINE_WINDOW_SECONDS, 1)]

SpecEvict == InitSteady /\ [][NextEvict]_vars

SpecSpike == InitCold /\ [][NextSpike]_vars

\* the other services started with no state retained, the credential file
\* being any of SeedFiles
InitStoreOnly ==
    InitDetectorCold /\ InitMonitor /\ InitClip /\ InitStoreAny /\ InitChat
    /\ InitService /\ InitJob /\ InitWriters /\ InitFilt /\ InitEvict /\ InitRooms
    /\ InitPools

\* the credential store: load_tokens and save_tokens calls in any order,
\* the process ending and starting again at any point
SpecStore == InitStoreOnly /\ [][NextStore]_vars

\* the monitor process from main() to its exit, on any of SeedFiles
SpecService == InitStoreOnly /\ [][NextService]_vars

(***************************************************************************)
(* Properties of the detector pipeline                                     *)
(***************************************************************************)
\* the step consumed a Kafka record
Consumed == offset' = offset + 1

\* the step made AnomalyDetector.process_element yield an event
Emitted == Len(anomalies') = Len(anomalies) + 1

\* the event yielded by an Emitted step
NewEvent == anomalies'[Len(anomalies')]

\* indices of the events of channel ch in the output stream
EventsOf(ch) == {i \in 1..Len(anomalies) : anomalies[i].broadcaster_id = ch}

\* the regular expression ^![A-Za-z0-9]+ matches a prefix of the text
IsBotCommand(text) ==
    \E n \in 2..Len(text) :
        /\ text[1] = "!"
        /\ \A i \in 2..n : text[i] \in Alnum

\* all counts of a bucket map are equal (sample standard deviation 0)
AllCountsEqual(mc) == \A b1, b2 \in DOMAIN mc : mc[b1] = mc[b2]

\* buckets of a map that lie inside the baseline window [t - 300, t]
InBaselineWindow(mc, t) ==
    {b \in DOMAIN mc : t - BASELINE_WINDOW_SECONDS <= b /\ b <= t}

\* C1: any two AnomalyEvents of one channel have detected_at values more
\* than COOLDOWN_SECONDS*1000 = 30000 ms apart (at most one event per
\* channel in any 30-second wall-clock window).
C1_CooldownSeparatesAnomalies ==
    \A ch \in Channels : \A i, j \in EventsOf(ch) :
        i < j => anomalies[j].detected_at - anomalies[i].detected_at
                    > COOLDOWN_SECONDS * 1000

\* two events of one channel have been emitted
C1_Witness ==
    \E ch \in Channels : Cardinality(EventsOf(ch)) >= 2

\* C5: whenever fewer than int(0.8*300) = 240 non-empty buckets lie inside
\* the baseline window [now-300, now] when a line is processed, no
\* AnomalyEvent is emitted.
C5_WarmupNeeds240BucketsInWindow ==
    [][Emitted =>
         Cardinality(InBaselineWindow(
             message_counts'[NewEvent.broadcaster_id], now)) >= min_required
      ]_vars

C7_CommandsDroppedOthersPassed ==
    [][Consumed =>
         LET v == cf_in'[1]
         IN  IF IsBotCommand(v.text)
             THEN /\ cf_out' = <<>>
                  /\ UNCHANGED <<message_counts, last_anomaly_time, anomalies>>
             ELSE /\ cf_out' = <<v>>
                  /\ message_counts'[v.broadcaster_id]
                        # message_counts[v.broadcaster_id]
      ]_vars

\* a bot command has just been dropped for a channel that has buckets
C7_Witness ==
    /\ cf_in # <<>>
    /\ IsBotCommand(cf_in[1].text)
    /\ cf_out = <<>>
    /\ message_counts[cf_in[1].broadcaster_id] # EmptyMap

\* C20, the detector's half: in the spike scenario no AnomalyEvent is
\* emitted while the lines of the constant baseline are processed, and when
\* every line has been processed exactly one AnomalyEvent has been emitted,
\* for the second of the spike.
C20_SpikeScenarioOneAnomaly ==
    /\ offset <= SpikeRate * SpikeSeconds => anomalies = <<>>
    /\ Len(anomalies) <= 1
    /\ offset = SpikeRecords =>
          /\ Len(anomalies) = 1
          /\ anomalies[1].broadcaster_id = SpikeChannel
          /\ anomalies[1].detected_at = (T0 + SpikeSeconds) * 1000

\* the scenario's baseline is under way, no line of the spike has been sent,
\* and an AnomalyEvent has been emitted
C20_AnomalyDuringBaseline ==
    /\ offset <= SpikeRate * SpikeSeconds
    /\ anomalies # <<>>

\* every line of the scenario has been processed and no AnomalyEvent was
\* emitted in the second of the spike
C20_SpikeMissed ==
    /\ offset = SpikeRecords
    /\ \A i \in DOMAIN anomalies :
          anomalies[i].detected_at # (T0 + SpikeSeconds) * 1000

\* the keys of a map within the last n seconds up to the clock
UpToClock(mc, n, current_time) ==
    {b \in DOMAIN mc : current_time - n <= b /\ b <= current_time}

\* C34: the statistics of an emitted event are those of the buckets up to
\* the clock: its window sum is the sum over the buckets in [now - 5, now]
\* and its baseline mean the sum over the buckets in [now - 300, now]
\* divided by their number; a bucket later than now counts in neither
C34_WindowsBoundedByClock ==
    [][Emitted =>
          LET mc == message_counts'[NewEvent.broadcaster_id]
              bk == UpToClock(mc, BASELINE_WINDOW_SECONDS, now)
              wk == UpToClock(mc, WINDOW_SIZE_SECONDS, now)
          IN  /\ NewEvent.message_count = SumCounts(mc, wk)
              /\ NewEvent.baseline_mean = <<SumCounts(mc, bk), Cardinality(bk)>>
      ]_vars

\* an event has been emitted whose window sum includes the lines of a
\* second later than the detector's clock
C34_FutureBucketCounted ==
    \E i \in DOMAIN anomalies :
        LET ev == anomalies[i]
            mc == message_counts[ev.broadcaster_id]
            t  == ev.detected_at \div 1000
        IN  /\ now = t
            /\ (t + 1) \in DOMAIN mc
            /\ ev.message_count
                  > SumCounts(mc, UpToClock(mc, WINDOW_SIZE_SECONDS, t))

\* the four conditions of an emission, on the lists process_element has
\* built from the map as it is after the line was counted
EmissionRule(mc, last_anomaly_ms, current_time) ==
    LET counts_baseline == BaselineKeys(mc, current_time)
        counts_window   == WindowKeys(mc, current_time)
        st              == BaselineStats(mc, counts_baseline)
        window_sum      == SumCounts(mc, counts_window)
        now_ms          == current_time * 1000
    IN  /\ Cardinality(counts_baseline) >= min_required
        /\ st.V > 0
        /\ AboveThreshold(window_sum, st)
        /\ \/ last_anomaly_ms = None
           \/ now_ms - last_anomaly_ms[1] > COOLDOWN_SECONDS * 1000

C36_EvictionIsSafe ==
    [][/\ Emitted =>
            LET ch == NewEvent.broadcaster_id
            IN  /\ Cardinality(DOMAIN message_counts'[ch]) >= min_required
                /\ \A i \in EventsOf(ch) :
                      NewEvent.detected_at - anomalies[i].detected_at
                          > COOLDOWN_SECONDS * 1000
       /\ evictions' # evictions =>
            /\ anomalies' = anomalies
            /\ \E ch \in Channels :
                  /\ message_counts'[ch] = EmptyMap
                  /\ last_anomaly_time'[ch] = None
                  /\ \A other \in Channels \ {ch} :
                        /\ message_counts'[other] = message_counts[other]
                        /\ last_anomaly_time'[other] = last_anomaly_time[other]
      ]_vars

\* a channel that had emitted an event lost its state, warmed up again and
\* has just emitted its next event
C36_Witness ==
    /\ evictions = 1
    /\ \E ch \in Channels :
          /\ (T0 - 1) \notin DOMAIN message_counts[ch]
          /\ last_anomaly_time[ch] = <<now * 1000>>
          /\ \E i, j \in EventsOf(ch) :
                /\ i < j
                /\ anomalies[j].detected_at = now * 1000

\* the count a map holds for a bucket, 0 when it has no such key
CountAt(mc, k) == IF k \in DOMAIN mc THEN mc[k] ELSE 0

\* C30: a record the command filter rejects changes no bucket; after
\* process_element has handled an accepted line of a channel, the channel's
\* message_counts has no key older than now - BASELINE_WINDOW_SECONDS,
\* every count it holds is at least 1 and is the count held before plus
\* one for the second of this line and plus nothing for any other second,
\* no bucket within the baseline window is lost, and the maps of the other
\* channels are as before: each count is the number of accepted lines of
\* its second
C30_BucketCountsInvariant ==
    [][offset' = offset + 1 =>
          LET value  == cf_in'[1]
              ch     == value.broadcaster_id
              bucket == value.timestamp \div 1000
              before == message_counts[ch]
              after  == message_counts'[ch]
              oldest == now' - BASELINE_WINDOW_SECONDS
          IN  IF cf_out' = <<>>
              THEN message_counts' = message_counts
              ELSE /\ \A k \in DOMAIN after :
                         /\ k >= oldest
                         /\ after[k] >= 1
                         /\ after[k] = CountAt(before, k)
                                       + (IF k = bucket THEN 1 ELSE 0)
                   /\ \A k \in (DOMAIN before) \cup {bucket} :
                         k >= oldest => k \in DOMAIN after
                   /\ \A c \in Channels \ {ch} :
                         message_counts'[c] = message_counts[c]
      ]_vars

\* a channel with a full baseline has had a line handled after the clock
\* advanced: its oldest bucket is gone, the next one is kept, and the second
\* of the lines handled holds two of them
C30_Witness ==
    \E ch \in Channels :
        /\ (T0 - BASELINE_WINDOW_SECONDS) \notin DOMAIN message_counts[ch]
        /\ (T0 - BASELINE_WINDOW_SECONDS + 1) \in DOMAIN message_counts[ch]
        /\ \E k \in DOMAIN message_counts[ch] :
              k >= T0 /\ message_counts[ch][k] = 2

RECURSIVE FilterAll(_)
\* the filter applied to a finite sequence, value by value
FilterAll(xs) ==
    IF xs = <<>> THEN <<>>
    ELSE CommandFilter(Head(xs)) \o FilterAll(Tail(xs))

Ranked(lo, hi) ==
    {streams[r] : r \in {q \in 1..Len(streams) : lo <= q /\ q <= hi}}

\* the running (or last) tick made this call
Called(op, channel) ==
    \E call \in room_calls : call.op = op /\ call.channel = channel

\* a tick has run to its end
TickOver == mpc = "idle" /\ polls > 0

\* C2: after every poll tick joined_channels is a subset of (top_leave of
\* that poll) union (joined_channels before the tick), and every channel
\* the tick newly added had rank <= JOIN_THRESHOLD in that poll's ranking.
C2_JoinsOnlyFromTopJoin ==
    /\ joined_channels \subseteq Ranked(1, LEAVE_THRESHOLD) \cup joined_prev
    /\ (joined_channels \ joined_prev) \subseteq Ranked(1, JOIN_THRESHOLD)

\* a tick that began with channels joined has added another one, while a
\* channel ranked JOIN_THRESHOLD+1..LEAVE_THRESHOLD stayed unjoined
C2_Witness ==
    /\ TickOver
    /\ joined_prev # {}
    /\ joined_channels \ joined_prev # {}
    /\ Ranked(JOIN_THRESHOLD + 1, LEAVE_THRESHOLD) \ joined_channels # {}

\* C3: hysteresis. A joined channel ranked within the top LEAVE_THRESHOLD of
\* a poll (ranks 6..10 included) gets no leave_room call and stays joined; a
\* channel ranked 6..10 that is not joined gets no join_room call and stays
\* unjoined; join_room is called only for rank <= 5 and leave_room only for
\* joined channels absent from the top 10.
C3_HysteresisStability ==
    /\ \A c \in joined_prev \cap Ranked(1, LEAVE_THRESHOLD) :
          c \in joined_channels /\ ~ Called("leave_room", c)
    /\ \A c \in Ranked(JOIN_THRESHOLD + 1, LEAVE_THRESHOLD) \ joined_prev :
          c \notin joined_channels /\ ~ Called("join_room", c)
    /\ \A call \in room_calls :
          /\ call.op = "join_room" =>
                call.channel \in Ranked(1, JOIN_THRESHOLD)
          /\ call.op = "leave_room" =>
                /\ call.channel \in joined_prev
                /\ call.channel \notin Ranked(1, LEAVE_THRESHOLD)

\* a tick whose listing succeeded is over; a channel that was joined before
\* it and ranked 6..10 in it is still joined, and another channel ranked
\* 6..10 is not joined
C3_Witness ==
    /\ TickOver
    /\ listed
    /\ \E c \in Ranked(JOIN_THRESHOLD + 1, LEAVE_THRESHOLD) :
          c \in joined_prev /\ c \in joined_channels
    /\ \E c \in Ranked(JOIN_THRESHOLD + 1, LEAVE_THRESHOLD) :
          c \notin joined_prev /\ c \notin joined_channels

\* the channels the running (or last) tick made this call for
CalledFor(op) == {call.channel : call \in {k \in room_calls : k.op = op}}

\* C33: when a tick in which nothing failed is over, joined_channels is
\* (joined_channels before the tick, intersected with top_leave) union
\* top_join; join_room was called exactly for top_join minus the channels
\* joined before, leave_room exactly for the channels joined before minus
\* top_leave, and every call succeeded
C33_MembershipConverges ==
    TickOver =>
        /\ joined_channels =
              (joined_prev \cap top_leave_streamers) \cup top_join_streamers
        /\ CalledFor("join_room") = top_join_streamers \ joined_prev
        /\ CalledFor("leave_room") = joined_prev \ top_leave_streamers
        /\ \A call \in room_calls : call.ok
        /\ top_join_streamers = Ranked(1, JOIN_THRESHOLD)
        /\ top_leave_streamers = Ranked(1, LEAVE_THRESHOLD)

\* a tick is over that joined a channel, left another and kept a third
C33_Witness ==
    /\ TickOver
    /\ CalledFor("join_room") # {}
    /\ CalledFor("leave_room") # {}
    /\ joined_prev \cap joined_channels # {}

\* C4: a tick that ends in the error handler (listing error, or any error
\* before the membership convergence) leaves joined_channels as it was and
\* makes no join_room or leave_room call; joined_channels loses a channel
\* only in a tick whose listing succeeded without that channel in its
\* top 10.
C4_FailedPollKeepsMembership ==
    [][/\ poll_errors' # poll_errors =>
             /\ joined_channels' = joined_channels
             /\ room_calls' = {}
             /\ mpc' = "idle"
       /\ \A c \in joined_channels \ joined_channels' :
             /\ listed'
             /\ c \notin {streams'[r] : r \in 1..Len(streams')}
      ]_vars

\* a tick whose listing failed is over and channels are still joined
C4_Witness ==
    /\ TickOver
    /\ ~ listed
    /\ poll_errors > 0
    /\ joined_channels # {}
    /\ joined_channels = joined_prev
    /\ room_calls = {}

\* positions of lifecycle holding an event of this type for this channel
LifecycleOf(event_type, login) ==
    {i \in DOMAIN lifecycle : /\ lifecycle[i].event_type = event_type
                              /\ lifecycle[i].broadcaster_login = login}

\* C21: in the hysteresis scenario (the channel within the top
\* JOIN_THRESHOLD in poll 1 and joined, ranked JOIN_THRESHOLD+1 ..
\* LEAVE_THRESHOLD in poll 2, absent from the top LEAVE_THRESHOLD in poll 3,
\* polls POLL_INTERVAL_SECONDS apart) the third poll leaves the channel and
\* exactly one "offline" event has been emitted for it.
C21_HysteresisScenarioOffline ==
    (polls >= 3 /\ mpc = "idle") =>
        /\ Mover \notin joined_channels
        /\ Cardinality(LifecycleOf("offline", Mover)) = 1

\* the third poll of the scenario is over: the channel has been left, its
\* key has not expired and no "offline" event was emitted for it
C21_LeftWithoutOffline ==
    /\ polls = 3 /\ mpc = "idle"
    /\ Mover \notin joined_channels
    /\ Called("leave_room", Mover)
    /\ ~ KeyMissing(redis_ttl, Mover)
    /\ LifecycleOf("offline", Mover) = {}
    /\ Cardinality(LifecycleOf("online", Mover)) = 1

\* positions of lifecycle holding an event for this channel
EventsFor(login) ==
    {i \in DOMAIN lifecycle : lifecycle[i].broadcaster_login = login}

\* i and j hold successive events of the same channel
Successive(i, j) ==
    /\ i < j
    /\ lifecycle[i].broadcaster_login = lifecycle[j].broadcaster_login
    /\ \A k \in (i + 1)..(j - 1) :
          lifecycle[k].broadcaster_login # lifecycle[i].broadcaster_login

\* C22: for every channel the lifecycle events emitted alternate online,
\* offline, online, ..., the first being "online", whatever polls failed and
\* whatever leave_room calls raised.
C22_LifecycleEventsAlternate ==
    \A i \in DOMAIN lifecycle :
        /\ (\A k \in 1..(i - 1) :
               lifecycle[k].broadcaster_login # lifecycle[i].broadcaster_login)
              => lifecycle[i].event_type = "online"
        /\ \A j \in DOMAIN lifecycle :
              Successive(i, j) =>
                  lifecycle[i].event_type # lifecycle[j].event_type

\* two "online" events were emitted for the channel and no "offline" event
C22_OnlineTwice ==
    /\ Cardinality(LifecycleOf("online", Mover)) = 2
    /\ LifecycleOf("offline", Mover) = {}

\* the first event emitted for the channel is an "offline" event
C22_OfflineFirst ==
    \E i \in EventsFor(Mover) :
        /\ lifecycle[i].event_type = "offline"
        /\ \A k \in EventsFor(Mover) : i <= k

\* no "online" event stands for the channel: none was emitted for it, or
\* an "offline" event was emitted after the last one
OnlineMissing(login) ==
    \A i \in LifecycleOf("online", login) :
        \E j \in LifecycleOf("offline", login) : i < j

\* C23: a poll that succeeds, with no redis call and no produce() failing,
\* emits the "online" event of every channel of its top JOIN_THRESHOLD for
\* which no "online" event stands, also when an earlier poll set the
\* channel's key without emitting the event (the publish failed, or the
\* channel was ranked JOIN_THRESHOLD+1 .. LEAVE_THRESHOLD then).
C23_MissedOnlineRecovered ==
    [][\A listing \in Listings :
          PollListed(listing, 0, {}) =>
              \A c \in top_join_streamers' :
                  OnlineMissing(c) =>
                      \E i \in DOMAIN lifecycle' \ DOMAIN lifecycle :
                          /\ lifecycle'[i].event_type = "online"
                          /\ lifecycle'[i].broadcaster_login = c
      ]_vars

\* the channel is joined and in the top JOIN_THRESHOLD of a poll that went
\* through, its key is set, and no event was ever emitted for it
C23_JoinedNeverOnline ==
    /\ TickOver /\ listed
    /\ Mover \in top_join_streamers
    /\ Mover \in joined_channels
    /\ ~ KeyMissing(redis_ttl, Mover)
    /\ EventsFor(Mover) = {}
    /\ lifecycle # <<>>

\* positions of the events the step has added to lifecycle
Published == DOMAIN lifecycle' \ DOMAIN lifecycle

\* C37: a poll that succeeds (no redis call and no produce() failing) emits
\* an "offline" event, with rank 0 and once, for exactly the logins that
\* are joined, absent from top_leave_streamers and whose TTL key no longer
\* exists; none for a channel in top_leave_streamers, for one that is not
\* joined, or for one whose key is still alive.
C37_OfflineOnlyOnExpiredLeave ==
    [][\A listing \in Listings :
          PollListed(listing, 0, {}) =>
              LET offline == {i \in Published :
                                 lifecycle'[i].event_type = "offline"}
              IN  /\ {lifecycle'[i].broadcaster_login : i \in offline}
                       = {l \in Logins : /\ l \in joined_channels
                                         /\ l \notin top_leave_streamers'
                                         /\ redis_ttl'[l] = 0}
                  /\ \A i, j \in offline :
                        /\ lifecycle'[i].rank = 0
                        /\ lifecycle'[i].broadcaster_login
                             = lifecycle'[j].broadcaster_login => i = j
      ]_vars

\* a poll has just emitted "offline" for a joined channel that is out of
\* top_leave_streamers with its key expired, while another joined channel
\* out of top_leave_streamers, its key alive, got none
C37_Witness ==
    /\ listed /\ polls > 0 /\ lifecycle # <<>>
    /\ LET e == lifecycle[Len(lifecycle)]
       IN  /\ e.event_type = "offline"
           /\ e.rank = 0
           /\ e.broadcaster_login \in joined_prev \ top_leave_streamers
           /\ KeyMissing(redis_ttl, e.broadcaster_login)
    /\ \E l \in joined_prev \ top_leave_streamers :
          /\ ~ KeyMissing(redis_ttl, l)
          /\ LifecycleOf("offline", l) = {}

\* the join_room / leave_room calls that returned or raised in the step
NewCalls == room_calls' \ room_calls

\* C38: joined_channels is exactly the rooms for which join_room returned
\* and leave_room has not returned since: a step changes it only by the
\* channel whose call returned; a join_room or Chat() that raises adds
\* nothing and a leave_room that raises removes nothing; the next poll
\* that goes through schedules every channel of the top JOIN_THRESHOLD that
\* is not joined and every joined channel out of the top LEAVE_THRESHOLD
\* again, and a scheduled channel is dropped only by calling its room or
\* by Chat() raising.
C38_MembershipTracksSuccessfulCalls ==
    [][/\ joined_channels' =
             (joined_channels
                \cup {k.channel : k \in {c \in NewCalls :
                                            c.op = "join_room" /\ c.ok}})
                \ {k.channel : k \in {c \in NewCalls :
                                         c.op = "leave_room" /\ c.ok}}
       /\ \A listing \in Listings, pub_fail \in PublishFailures :
             PollListed(listing, 0, pub_fail) =>
                 /\ channels_to_join' = top_join_streamers' \ joined_channels
                 /\ channels_to_leave' = joined_channels \ top_leave_streamers'
       /\ \A c \in channels_to_join \ channels_to_join' :
             \/ [op |-> "join_room", channel |-> c, ok |-> TRUE] \in NewCalls
             \/ [op |-> "join_room", channel |-> c, ok |-> FALSE] \in NewCalls
             \/ ChatInit(FALSE)
       /\ \A c \in channels_to_leave \ channels_to_leave' :
             \/ [op |-> "leave_room", channel |-> c, ok |-> TRUE] \in NewCalls
             \/ [op |-> "leave_room", channel |-> c, ok |-> FALSE] \in NewCalls
             \/ ChatInit(FALSE)
       /\ mpc' = "idle" => channels_to_join' = {} /\ channels_to_leave' = {}
      ]_vars

\* the join_room of a channel raised in the first poll; the second poll
\* found it in the top JOIN_THRESHOLD again, called join_room for it alone
\* and recorded it
C38_Witness ==
    /\ polls = 2 /\ mpc = "idle" /\ listed
    /\ room_failures = 1
    /\ Cardinality(joined_prev) = JOIN_THRESHOLD - 1
    /\ \E c \in top_join_streamers \ joined_prev :
          /\ room_calls = {[op |-> "join_room", channel |-> c, ok |-> TRUE]}
          /\ LifecycleOf("online", c) # {}
          /\ joined_channels = joined_prev \cup {c}

\* a step in which a call of the tick raised: the listing, a redis call
\* (both end in the except clause of poll_top_streams), Chat(), join_room
\* or leave_room
TickErrorRaised ==
    \/ PollListingFails
    \/ poll_errors' # poll_errors
    \/ ChatInit(FALSE)
    \/ room_failures' # room_failures

\* C29: every error raised inside a poll tick is counted in the error
\* metric and stays inside the tick, which ends or goes on with its next
\* channel
C29_TickErrorsCounted ==
    [][TickErrorRaised =>
           /\ poll_errors' = poll_errors + 1
           /\ mpc' \in {"idle", "joining", "leaving"}
      ]_vars

\* the part of C29 the code keeps: no error leaves the tick, and an error
\* of the listing or of the TTL cache is counted
C29_TickErrorsStayInside ==
    [][TickErrorRaised =>
           /\ mpc' \in {"idle", "joining", "leaving"}
           /\ (PollListingFails \/ poll_errors' # poll_errors)
                 => (poll_errors' = poll_errors + 1 /\ mpc' = "idle")
      ]_vars

\* join_room or leave_room has raised and the error metric is still 0
C29_ChatErrorNotCounted ==
    /\ room_failures > 0
    /\ poll_errors = 0

(***************************************************************************)
(* Properties of the chat pump                                             *)
(***************************************************************************)
\* a step that handles one chat message
ChatHandled == chat_msgs' = chat_msgs + 1

RECURSIVE DecimalValue(_)
\* the number a sequence of decimal digits writes
DecimalValue(str) ==
    IF str = <<>> THEN 0
    ELSE 10 * DecimalValue(SubSeq(str, 1, Len(str) - 1))
         + (CHOOSE d \in 0..9 : DecimalDigits[d + 1] = str[Len(str)])

\* a canonical decimal string: digits only, no leading zero except "0"
IsDecimal(str) ==
    /\ Len(str) >= 1
    /\ \A i \in DOMAIN str : \E d \in 0..9 : DecimalDigits[d + 1] = str[i]
    /\ Len(str) > 1 => str[1] # "0"

C39_PublishedOnlyWhileJoined ==
    [][Len(produced') > Len(produced) =>
          Lower(chat_in'[1].room_name) \in joined_channels
      ]_vars

\* join_room is still awaited for the channel, which is not in
\* joined_channels, and a line of its room has been published
C39_PublishedBeforeJoinRecorded ==
    /\ mpc = "joining"
    /\ chat_in # None
    /\ LET login == Lower(chat_in[1].room_name)
       IN  /\ login \in channels_to_join
           /\ login \in irc_rooms
           /\ login \notin joined_channels
           /\ produced # <<>>
           /\ produced[Len(produced)].value.broadcaster_id
                = broadcaster_ids[login]

\* C40: connections taken from a pool are returned on every exit path.
\* Once _upsert_streamer is over (it committed, it failed and rolled back,
\* the rollback raised, or getconn gave nothing) the monitor pool has as
\* many connections out as before the call; the connections out of the
\* API pool are exactly those of the requests whose teardown has not run
\* yet, so every completed request has given its connection back and the
\* pool of at most maxconn = 10 is never used up by connections nobody
\* holds.
C40_ConnectionsReturned ==
    /\ upc = "idle" => db_used = 0
    /\ upc = "held" => db_used = 1
    /\ api_used = reqs["held"]
    /\ api_used <= maxconn
    /\ reqs["done"] = MaxRequests => api_used = 0

\* an upsert has failed and rolled back and the monitor pool is whole
\* again; every request of the API has run its view, maxconn of them got
\* a connection and at least one was refused, some holders have been torn
\* down and their connections are back in the pool
C40_Witness ==
    /\ upsert_result = "rolled_back" /\ upc = "idle" /\ db_used = 0
    /\ reqs["new"] = 0 /\ reqs["nodb"] = 0
    /\ reqs["refused"] >= 1
    /\ reqs["held"] + reqs["done"] = maxconn
    /\ reqs["done"] >= 2
    /\ reqs["held"] >= 1
    /\ api_used = reqs["held"]

(***************************************************************************)
(* Properties of the monitor process                                       *)
(***************************************************************************)
\* the place of a step in the log of stop(), 0 when it is not there
StopPlace(step) ==
    IF step \in Range(stop_log)
    THEN CHOOSE i \in DOMAIN stop_log : stop_log[i] = step
    ELSE 0

\* the handles stop() releases
Releasable == {"twitch", "db_pool", "redis_client"}

\* the process has ended after a shutdown signal
ShutDownBySignal == service = "exited" /\ exit_code = <<0>>

\* C25: when the process has ended after a shutdown signal, stop() has
\* stopped the scheduler first, then closed the chat session if there was
\* one, then flushed the producer, and has released every handle, a handle
\* made later in initialize() before a handle made earlier; no lifecycle
\* event and no chat line was produced after the flush
C25_ShutdownOrdering ==
    ShutDownBySignal =>
        /\ StopPlace("scheduler") = 1
        /\ chat # None => StopPlace("chat") = 2
        /\ StopPlace("kafka_flush") > StopPlace("chat")
        /\ \A h \in Releasable : StopPlace(h) > 0
        /\ \A i, j \in DOMAIN InitOrder :
              (/\ i < j
               /\ InitOrder[i] \in Releasable
               /\ InitOrder[j] \in Releasable)
                 => StopPlace(InitOrder[j]) < StopPlace(InitOrder[i])
        /\ flushed = <<Len(lifecycle), Len(produced)>>

\* the part of C25 the code keeps when stop() is not cut short: scheduler,
\* chat session, flush in this order, nothing produced after the flush
C25_StopSequenceKept ==
    stop_pc = "done" =>
        /\ "scheduler" \in Range(handles) => StopPlace("scheduler") = 1
        /\ chat # None => StopPlace("chat") = 2
        /\ "kafka_producer" \in Range(handles)
              => StopPlace("kafka_flush") > StopPlace("chat")
        /\ flushed = <<Len(lifecycle), Len(produced)>>

\* stop() ran to its end after a signal with the chat session open, and
\* released the platform client before the pool and the cache
C25_ReleasedInInitOrder ==
    /\ ShutDownBySignal
    /\ stop_pc = "done"
    /\ stop_log = <<"scheduler", "chat", "twitch", "kafka_flush", "db_pool",
                    "redis_client">>

\* the process ended after a signal with stop() cut short before the flush
C25_StopCancelled ==
    /\ ShutDownBySignal
    /\ stop_pc = "cancelled"
    /\ "kafka_flush" \notin Range(stop_log)

\* C28: when the credential file is absent as the monitor initializes, the
\* process does not reach its steady state, and it ends with exit code 1
C28_MissingCredentialIsFatal ==
    (store_file.kind = "absent" /\ service # "created") =>
        /\ service # "running"
        /\ service = "exited" => exit_code = <<1>>

\* the monitor polls with no credential file and no user authentication
C28_RunsWithoutCredential ==
    /\ store_file.kind = "absent"
    /\ service = "running"
    /\ ~ user_auth
    /\ polls >= 1

\* a credential file that is present and cannot be used is fatal
C28_UnusableCredentialIsFatal ==
    (load_tokens_raises(store_file) \in {"JSONDecodeError", "ValueError"}
     /\ service # "created") =>
        /\ service # "running"
        /\ service = "exited" => exit_code = <<1>>

(***************************************************************************)
(* Properties of the clip creator                                          *)
(***************************************************************************)
\* positions of io holding this operation
Entries(op) == {i \in DOMAIN io : io[i][1] = op}

\* positions of io holding this operation made in attempt k
EntriesIn(op, k) == {i \in Entries(op) : io[i][2] = k}

\* create_clip has returned or raised for attempt k
CallOver(k) ==
    \/ k < attempt
    \/ k = attempt /\ cpc \notin {"create_clip", "create_refresh", "create_resend"}

\* process_element is at work on the anomaly in create_clip, or about to be
InCreateLoop == cpc \in {"create_clip", "create_refresh", "create_resend"}

\* the error the last failed attempt raised is permanent: flagged so, or a
\* 4xx status other than 408 and 429
PermanentError(e) ==
    \/ ~ e.is_retryable
    \/ e.status_code \in (400..499) \ {408, 429}

\* rows of the catalog written for the anomaly being processed
RowsOfAnomaly ==
    {r \in clips : /\ r.broadcaster_id = anomaly[1].broadcaster_id
                   /\ r.detected_at = anomaly[1].detected_at}

\* C8, schedule: create_clip is called at most 3 times per anomaly, the k-th
\* call being the k-th attempt, with nothing slept before the 1st, 3 s slept
\* right before the 2nd and 6 s right before the 3rd.
C8_Schedule ==
    /\ Cardinality(Entries("create_clip")) <= 3
    /\ \A i \in Entries("create_clip") :
          LET k == io[i][2]
          IN  /\ k = Cardinality({j \in Entries("create_clip") : j <= i})
              /\ k = 1 => i = 1
              /\ k = 2 => io[i - 1] = <<"sleep", 3, 0>>
              /\ k = 3 => io[i - 1] = <<"sleep", 6, 0>>

\* C8: for each anomaly at most 3 create_clip attempts are made, after waits
\* of 0 s, 3 s and 6 s; an attempt after the first is made only when the one
\* before failed with a retryable error or returned no clip id; once an
\* attempt has returned a clip id no request to create a clip is made again
\* for that anomaly.
C8_RetrySchedule ==
    [][/\ C8_Schedule'
       /\ (cpc' = "create_clip" /\ attempt' > 1) =>
             /\ clip_id' = None
             /\ last_error' = None \/ last_error'[1].is_retryable
       /\ (clip_id # None /\ handled' = handled) =>
             /\ ~ InCreateLoop'
             /\ \A i \in DOMAIN io' \ DOMAIN io :
                   io'[i][1] \notin {"create_clip", "create_clip_resend"}
      ]_vars

\* three attempts were made, each failing with a retryable error, with the
\* two retry sleeps, and the anomaly was given up
C8_Witness ==
    /\ cpc = "idle"
    /\ ended = "creation_failed"
    /\ Cardinality(Entries("create_clip")) = 3
    /\ <<"sleep", 3, 0>> \in Range(io)
    /\ <<"sleep", 6, 0>> \in Range(io)
    /\ last_error # None
    /\ last_error[1].is_retryable

\* C9: once a create_clip attempt has failed with a permanent error (HTTP
\* 403 for one), process_element is over for that anomaly: the failing
\* request is the last thing it did, so there is no further attempt, no
\* retry sleep, no 15 s wait, no get_clip and no insert, and the catalog has
\* no row for the anomaly.
C9_PermanentErrorStopsPipeline ==
    (last_error # None /\ PermanentError(last_error[1])) =>
        /\ cpc = "idle"
        /\ ended = "creation_failed"
        /\ clip_id = None
        /\ Cardinality(Entries("create_clip")) = attempt
        /\ io[Len(io)][1] \in {"create_clip", "create_clip_resend", "refresh"}
        /\ io[Len(io)][2] = attempt
        /\ Entries("get_clip") = {}
        /\ Entries("insert_clip") = {}
        /\ <<"sleep", CLIP_PROCESSING_WAIT, 0>> \notin Range(io)
        /\ RowsOfAnomaly = {}

\* the first attempt was answered 403 and nothing else was done
C9_Witness ==
    /\ last_error = <<[status_code |-> 403, is_retryable |-> FALSE]>>
    /\ attempt = 1
    /\ Len(io) = 1
    /\ io[1][1] = "create_clip"
    /\ cpc = "idle"
    /\ ended = "creation_failed"
    /\ RowsOfAnomaly = {}

\* the second half of C10: an error with status 401 is the reply to a
\* re-sent request; it is permanent, that request is the last thing done for
\* the anomaly, and the attempt made one refresh
SecondUnauthorizedIsFinal ==
    (last_error # None /\ last_error[1].status_code = 401) =>
        /\ ~ last_error[1].is_retryable
        /\ cpc = "idle"
        /\ ended = "creation_failed"
        /\ io[Len(io)] = <<"create_clip_resend", attempt, access_token>>
        /\ Cardinality(EntriesIn("refresh", attempt)) = 1

\* C10 as stated: within one create_clip call a 401 reply triggers exactly
\* one token refresh attempt and exactly one re-send of the request with the
\* new access token; a 401 reply to the re-sent request is a permanent error
\* after which no attempt and no refresh is made for the anomaly.
C10_Original ==
    /\ \A k \in 1..Len(RETRY_DELAYS) :
          (CallOver(k) /\ EntriesIn("got_401", k) # {}) =>
              /\ Cardinality(EntriesIn("refresh", k)) = 1
              /\ Cardinality(EntriesIn("create_clip_resend", k)) = 1
    /\ SecondUnauthorizedIsFinal

\* the refresh succeeded in attempt k: _save_tokens was called
Refreshed(k) == EntriesIn("save_tokens", k) # {}

\* C10, amended: within one create_clip call a 401 reply triggers exactly
\* one token refresh attempt; the request is re-sent exactly once, carrying
\* the new access token, when that refresh succeeds and is not re-sent when
\* the refresh fails; a 401 reply to the re-sent request is a permanent
\* error after which no attempt and no refresh is made for the anomaly.
C10_OneRefreshOneResendIfRefreshed ==
    /\ \A k \in 1..Len(RETRY_DELAYS) :
          /\ Cardinality(EntriesIn("got_401", k)) <= 1
          /\ Cardinality(EntriesIn("refresh", k)) <= 1
          /\ (CallOver(k) /\ EntriesIn("got_401", k) # {}) =>
                /\ Cardinality(EntriesIn("refresh", k)) = 1
                /\ Cardinality(EntriesIn("create_clip_resend", k)) =
                      (IF Refreshed(k) THEN 1 ELSE 0)
          /\ \A i \in EntriesIn("create_clip_resend", k) :
                /\ io[i - 1][1] = "save_tokens"
                /\ io[i][3] = io[i - 1][3]
                /\ \A j \in EntriesIn("create_clip", k) : io[j][3] # io[i][3]
    /\ SecondUnauthorizedIsFinal

\* a first request was answered 401, the refresh succeeded, the re-sent
\* request was answered 401 and the anomaly was given up
C10_Witness ==
    /\ last_error = <<[status_code |-> 401, is_retryable |-> FALSE]>>
    /\ cpc = "idle"
    /\ ended = "creation_failed"
    /\ Refreshed(attempt)
    /\ Cardinality(EntriesIn("create_clip_resend", attempt)) = 1

\* a first request was answered 401 and the refresh failed: the call is over
\* without a re-sent request
C10_RefreshFailedNoResend ==
    \E k \in 1..Len(RETRY_DELAYS) :
        /\ CallOver(k)
        /\ EntriesIn("got_401", k) # {}
        /\ ~ Refreshed(k)
        /\ EntriesIn("create_clip_resend", k) = {}

\* the save_tokens entries among the entries this step added to io
NewSaves == {i \in DOMAIN io' \ DOMAIN io : io'[i][1] = "save_tokens"}

\* this step is a token refresh that succeeded: the client holds a new
\* access token
RefreshedNow == access_token' # access_token

\* the record _save_tokens writes from the old file and the new pair
SavedRecord ==
    [access_token |-> access_token', refresh_token |-> refresh_token',
     scopes |-> token_file.scopes]

\* a create_clip call whose first request was answered 401, whose refresh
\* succeeded and whose re-sent request is answered 202 with this clip id
RefreshScenario(id) ==
    /\ cpc = "create_resend"
    /\ Cardinality(EntriesIn("got_401", attempt)) = 1
    /\ CreateClipResend(Http(202, <<id>>))

C11_SaveFailedSilently ==
    /\ Entries("save_tokens") # {}
    /\ token_file.access_token # access_token

\* the catalog holds a row with the clip id process_element holds
ClipIdPresent == \E r \in clips : r.clip_id = clip_id[1]

\* C15: the clips table holds at most one row per clip_id; insert_clip of a
\* clip_id that is present leaves the table as it was, the first row keeping
\* its fields, and process_element completes as for a new row; insert_clip
\* of a clip_id that is not present adds its row.
C15_InsertIsIdempotent ==
    [][/\ \A r1, r2 \in clips' : r1.clip_id = r2.clip_id => r1 = r2
       /\ (cpc = "insert_clip" /\ ClipIdPresent) => clips' = clips
       /\ (cpc = "insert_clip" /\ ~ ClipIdPresent /\ ended' = "complete") =>
             /\ Cardinality(clips') = Cardinality(clips) + 1
             /\ \E r \in clips' \ clips : r.clip_id = clip_id[1]
       /\ (cpc = "insert_clip" /\ ended' = "complete") =>
             /\ Len(results') = Len(results) + 1
             /\ results'[Len(results')].clip_id = clip_id[1]
      ]_vars

\* two anomalies were given the same clip id and both were inserted without
\* error: the table holds the one row of the first
C15_Witness ==
    /\ handled = 2
    /\ cpc = "idle"
    /\ ended = "complete"
    /\ Len(results) = 2
    /\ results[1].clip_id = results[2].clip_id
    /\ Cardinality(clips) = 1
    /\ \A r \in clips : /\ r.clip_id = results[2].clip_id
                        /\ r.detected_at # anomaly[1].detected_at

\* the replies the classification rule speaks of: a transport failure, a
\* status of the retryable list, or another 4xx status
ClassifiedReply(reply) ==
    \/ reply.kind \in {"timeout", "connection_error"}
    \/ /\ reply.kind = "http"
       /\ reply.status \in {408, 429, 500, 502, 503, 504} \cup (400..499)

\* the flag the rule gives such a reply
RuleSaysRetryable(reply) ==
    \/ reply.kind \in {"timeout", "connection_error"}
    \/ reply.kind = "http" /\ reply.status \in {408, 429, 500, 502, 503, 504}

\* this step is a request of create_clip, first or re-sent, answered with
\* this reply, and the reply ends the call (a 401 to the first request
\* starts the refresh instead)
CreateClipAnswered(reply) ==
    \/ CreateClipRequest(reply) /\ ~ (reply.kind = "http" /\ reply.status = 401)
    \/ CreateClipResend(reply)

\* C16: whichever request of create_clip it answers, a reply with a status
\* in {408, 429, 500, 502, 503, 504}, a timeout or a connection error makes
\* create_clip raise an error flagged retryable, any other 4xx status one
\* flagged permanent, and the error carries the status of the reply.
C16_UniformClassification ==
    [][\A reply \in CreateReplies :
          (CreateClipAnswered(reply) /\ ClassifiedReply(reply)) =>
              /\ last_error' # None
              /\ last_error'[1].is_retryable = RuleSaysRetryable(reply)
              /\ reply.kind = "http" =>
                    last_error'[1].status_code = reply.status
      ]_vars

\* the same rule for the first request of a call only
C16_FirstRequestClassified ==
    [][\A reply \in CreateReplies :
          (/\ CreateClipRequest(reply)
           /\ ~ (reply.kind = "http" /\ reply.status = 401)
           /\ ClassifiedReply(reply)) =>
              /\ last_error' # None
              /\ last_error'[1].is_retryable = RuleSaysRetryable(reply)
              /\ reply.kind = "http" =>
                    last_error'[1].status_code = reply.status
      ]_vars

\* C17: a row enters the catalog only by the insert of process_element,
\* made for an anomaly for which create_clip returned the row's clip_id and
\* get_clip, called after the 15 s wait, returned the row's metadata; the
\* row has the anomaly's broadcaster_id and detected_at; no row is ever
\* removed; an anomaly that ended with a failed creation, without metadata
\* or with a database error has no row.
C17_RowsOnlyFromCompletedPipelines ==
    [][/\ clips \subseteq clips'
       /\ clips' # clips =>
             /\ cpc = "insert_clip" /\ ended' = "complete"
             /\ clip_id # None /\ clip_data # None
             /\ Entries("create_clip") # {}
             /\ Entries("get_clip") # {}
             /\ \E r \in clips' :
                   /\ clips' = clips \cup {r}
                   /\ r.clip_id = clip_id[1]
                   /\ r.broadcaster_id = anomaly[1].broadcaster_id
                   /\ r.detected_at = anomaly[1].detected_at
                   /\ r.embed_url = GetOr(clip_data[1].embed_url, "")
                   /\ r.thumbnail_url = GetOr(clip_data[1].thumbnail_url, "")
       /\ ended' \in {"creation_failed", "metadata_failed", "error"} =>
             RowsOfAnomaly' = {}
       /\ (anomaly' # None /\ (clip_id' = None \/ clip_data' = None)) =>
             RowsOfAnomaly' = {}
      ]_vars

\* the first anomaly ended without a result and without a row, the second
\* was completed and the one row of the catalog is its row
C17_Witness ==
    /\ handled = 2
    /\ cpc = "idle"
    /\ ended = "complete"
    /\ Len(results) = 1
    /\ Cardinality(clips) = 1
    /\ RowsOfAnomaly = clips

\* the state of the anomaly's pipeline, in the names of the design: RECEIVED
\* before the first request, CREATING inside the retry loop, CREATED with a
\* clip id and the wait ahead, WAITING with the wait made and get_clip
\* ahead, FETCHING_META from the call of get_clip to the insert
Stage ==
    IF handled = 0 THEN "NONE"
    ELSE IF cpc = "create_clip" /\ io = <<>> THEN "RECEIVED"
    ELSE IF InCreateLoop THEN "CREATING"
    ELSE IF cpc = "sleep15" THEN "CREATED"
    ELSE IF cpc = "get_clip" THEN "WAITING"
    ELSE IF cpc \in {"get_refresh", "get_resend", "insert_clip"}
         THEN "FETCHING_META"
    ELSE IF ended = "creation_failed" THEN
        IF last_error # None /\ ~ last_error[1].is_retryable
        THEN "CREATE_FAILED_PERMANENT" ELSE "CREATE_FAILED_EXHAUSTED"
    ELSE IF ended = "metadata_failed" THEN "META_MISSING"
    ELSE IF ended = "complete" THEN "PERSISTED"
    ELSE IF ended = "error" THEN "DB_FAILED"
    ELSE "UNKNOWN"

TerminalStages ==
    {"CREATE_FAILED_PERMANENT", "CREATE_FAILED_EXHAUSTED", "META_MISSING",
     "PERSISTED", "DB_FAILED"}

\* the moves of the state machine; the step that leaves RECEIVED is the
\* first request, which may already end CREATING
StageMoves ==
    {<<"NONE", "RECEIVED">>,
     <<"RECEIVED", "CREATING">>, <<"RECEIVED", "CREATED">>,
     <<"RECEIVED", "CREATE_FAILED_PERMANENT">>,
     <<"CREATING", "CREATING">>, <<"CREATING", "CREATED">>,
     <<"CREATING", "CREATE_FAILED_PERMANENT">>,
     <<"CREATING", "CREATE_FAILED_EXHAUSTED">>,
     <<"CREATED", "WAITING">>,
     <<"WAITING", "FETCHING_META">>, <<"WAITING", "META_MISSING">>,
     <<"FETCHING_META", "FETCHING_META">>, <<"FETCHING_META", "PERSISTED">>,
     <<"FETCHING_META", "META_MISSING">>, <<"FETCHING_META", "DB_FAILED">>}
        \cup {<<t, "RECEIVED">> : t \in TerminalStages}

\* the order of what was done for the anomaly: the 15 s wait once, right
\* after the request that returned the clip id; get_clip right after the
\* wait; the insert last, right after the request that returned the data
PipelineOrder ==
    /\ Cardinality(Entries("get_clip")) <= 1
    /\ Cardinality(Entries("insert_clip")) <= 1
    /\ Cardinality({i \in DOMAIN io : io[i] = <<"sleep", CLIP_PROCESSING_WAIT, 0>>}) <= 1
    /\ \A i \in DOMAIN io :
          /\ io[i] = <<"sleep", CLIP_PROCESSING_WAIT, 0>> =>
                /\ clip_id # None
                /\ i > 1
                /\ io[i - 1][1] \in {"create_clip", "create_clip_resend"}
                /\ \A j \in DOMAIN io :
                      j > i => io[j][1] \notin {"create_clip", "create_clip_resend"}
          /\ io[i][1] = "get_clip" =>
                i > 1 /\ io[i - 1] = <<"sleep", CLIP_PROCESSING_WAIT, 0>>
          /\ io[i][1] \in {"get_clip_resend", "insert_clip"} =>
                Entries("get_clip") # {} /\ \A j \in Entries("get_clip") : j < i
          /\ io[i][1] = "insert_clip" =>
                /\ clip_data # None
                /\ i = Len(io)
                /\ io[i - 1][1] \in {"get_clip", "get_clip_resend"}

\* C18: the pipeline of an anomaly moves only along RECEIVED -> CREATING ->
\* (CREATED | CREATE_FAILED_PERMANENT | CREATE_FAILED_EXHAUSTED) -> WAITING
\* -> FETCHING_META -> (PERSISTED | META_MISSING | DB_FAILED); the 15 s wait
\* is made only with a clip id returned, get_clip is called only after the
\* wait, the insert is made only with data returned by get_clip, and
\* process_element ends in exactly one terminal state, in which nothing
\* more is done for the anomaly.
C18_PipelineStateMachine ==
    [][/\ <<Stage, Stage'>> \in StageMoves
       /\ PipelineOrder'
       /\ cpc' = "idle" <=> Stage' \in TerminalStages
       /\ cpc' # "idle" <=> ended' = "running"
       /\ Stage \in TerminalStages => (cpc' = "create_clip" /\ io' = <<>>)
      ]_vars

\* an anomaly went through every stage and was persisted: an attempt
\* returned the clip id, the wait was made, get_clip returned the data, the
\* row was inserted
C18_Witness ==
    /\ Stage = "PERSISTED"
    /\ clip_id # None /\ clip_data # None
    /\ \E i \in DOMAIN io :
          /\ io[i] = <<"sleep", CLIP_PROCESSING_WAIT, 0>>
          /\ io[i + 1][1] = "get_clip"
    /\ io[Len(io)][1] = "insert_clip"
    /\ RowsOfAnomaly # {}

\* C19: every anomaly handed to process_element, the first and every later
\* one, reaches a terminal state; and in every terminal state, a failure
\* (a database error on insert included) as much as a success,
\* process_element can be called with the next anomaly of either channel.
C19_EveryAnomalyTerminates ==
    /\ \A k \in 1..MaxAnomalies :
          (handled = k /\ cpc # "idle") ~>
              (handled = k /\ Stage \in TerminalStages)
    /\ [](Stage \in TerminalStages /\ handled < MaxAnomalies =>
             \A ch \in Channels : ENABLED ClipReceive(ch))

\* the first anomaly ended without a result, the second went as far as the
\* insert and ended in the database error
C19_Witness ==
    /\ handled = 2
    /\ Stage = "DB_FAILED"
    /\ io[Len(io)][1] = "insert_clip"
    /\ results = <<>>
    /\ clips = {}

(***************************************************************************)
(* Properties of the job                                                   *)
(***************************************************************************)
\* ClipCreator.process_element is in one of its waits: the time.sleep of a
\* retry delay before the attempt, or the time.sleep(15)
InWait ==
    \/ cpc = "sleep15"
    \/ cpc = "create_clip" /\ RETRY_DELAYS[attempt] > 0

\* the entries a step adds to io
NewIo == {i \in DOMAIN io' : i > Len(io)}

\* C26: when a shutdown has been signalled and the pipeline is in a retry
\* delay or in the processing delay, the wait ends without having slept
\* its duration
C26_WaitsHonorShutdown ==
    [][(shutdown /\ InWait) =>
           \A i \in NewIo : io'[i][1] # "sleep"
      ]_vars

\* a shutdown was signalled during the processing delay and the pipeline
\* went on to get_clip after the 15 s
C26_SleptThroughShutdown ==
    /\ shutdown
    /\ cpc = "get_clip"
    /\ io[Len(io)] = Did("sleep", CLIP_PROCESSING_WAIT, 0)

\* C27: while a pipeline is in one of its waits, the detector takes the
\* next chat line of every channel
C27_SleepsDoNotBlockDetector ==
    (InWait /\ offset < MaxJobRecords) =>
        \A ch \in Channels :
            ENABLED JobRecord(ch, <<"a">>, now * 1000 + 999)

\* a pipeline is in its processing delay and a record is still to be taken
C27_DetectorWaitsForSleep ==
    /\ cpc = "sleep15"
    /\ offset < MaxJobRecords
    /\ \A ch \in Channels :
          ~ ENABLED JobRecord(ch, <<"a">>, now * 1000 + 999)

(***************************************************************************)
(* Properties of the writers of the credential file                        *)
(***************************************************************************)
\* no save is in progress
Quiescent == \A w \in Writers : wpc[w] = "idle"

\* C31: the credential file is written only through the save of the
\* credential store, and once the saves have ended it is a complete record
\* of the newest pair issued: no write was interleaved with another and no
\* older pair has replaced a newer one
C31_StoreIsSingleWriter ==
    /\ shared_file.by \in {"seed", "TokenManager"}
    /\ Quiescent =>
          /\ shared_file.kind = "json"
          /\ shared_file.pair = issued

\* a subtask of the job has written the file itself, and after all saves
\* the file holds a pair older than the newest one issued
C31_OlderPairOverwroteNewer ==
    /\ Quiescent
    /\ shared_file.kind = "json"
    /\ shared_file.by = "TwitchAPIClient"
    /\ shared_file.pair > 0
    /\ shared_file.pair < issued
    /\ \E w \in Writers : wpair[w] = issued /\ SavesThrough(w) = "TwitchAPIClient"

(***************************************************************************)
(* Properties of the credential store                                      *)
(***************************************************************************)
\* the file found at the start is a JSON record that has scopes
SeededWithScopes == seeded.kind = "json" /\ seeded.scopes # None

\* the file found at the start is a record with both tokens and scopes
SeededComplete ==
    /\ SeededWithScopes
    /\ ~ Falsy(seeded.access_token)
    /\ ~ Falsy(seeded.refresh_token)

\* C12: for every existing credential file with scopes S and every pair
\* (a, r), a load_tokens that follows save_tokens(a, r) returns (a, r, S),
\* and whenever the file holds a record its scopes are those recorded at
\* seeding, whatever calls came before on whatever instance.
C12_RoundTripKeepsScopes ==
    [][/\ (LoadTokens /\ SeededWithScopes /\ last_saved # None) =>
             loaded' = [raised |-> "none",
                        value |-> <<last_saved[1], last_saved[2],
                                    seeded.scopes[1]>>]
       /\ (SeededWithScopes /\ store_file'.kind = "json") =>
             store_file'.scopes = seeded.scopes
      ]_vars

\* C13: a load_tokens made after the process ended in the middle of a
\* save_tokens call returns a complete record, the old one or the new one:
\* with a complete file at the start, no load_tokens call ever fails.
C13_LoadAfterCrashIsComplete ==
    SeededComplete => loaded.raised \in {"not_called", "none"}

\* the outcome the store contract gives load on this file
Credential(file) ==
    IF file.kind = "absent" THEN "missing"
    ELSE IF \/ file.kind = "not_json"
            \/ file.access_token \in {None, <<"">>}
            \/ file.refresh_token \in {None, <<"">>}
         THEN "corrupt"
    ELSE "valid"

\* C14: load_tokens fails with FileNotFoundError when the file is absent,
\* with JSONDecodeError or ValueError when the file is not JSON or one of
\* access_token and refresh_token is absent or empty; it returns (access,
\* refresh, scopes) of the file exactly when both tokens are non-empty.
C14_LoadClassifiesFile ==
    [][LoadTokens =>
          /\ Credential(store_file) = "missing" <=>
                loaded'.raised = "FileNotFoundError"
          /\ Credential(store_file) = "corrupt" <=>
                loaded'.raised \in {"JSONDecodeError", "ValueError"}
          /\ Credential(store_file) = "valid" <=> loaded'.raised = "none"
          /\ loaded'.raised = "none" =>
                /\ loaded'.value[1] = store_file.access_token[1]
                /\ loaded'.value[2] = store_file.refresh_token[1]
                /\ loaded'.value[1] # "" /\ loaded'.value[2] # ""
                /\ store_file.scopes # None =>
                      loaded'.value[3] = store_file.scopes[1]
          /\ loaded'.raised # "none" => loaded'.value = None
      ]_vars

\* load_tokens was called on a record whose access_token is empty and
\* raised ValueError
C14_Witness ==
    /\ store_file.kind = "json"
    /\ store_file.access_token = <<"">>
    /\ loaded.raised = "ValueError"

\* load_tokens was called with no file and raised FileNotFoundError
C14_MissingFile ==
    /\ store_file.kind = "absent"
    /\ loaded.raised = "FileNotFoundError"

====
